---------------------------- MODULE Spec2Model ----------------------------
(***************************************************************************)
(* A model of the eclipse assembly and period/ephemeris inference of       *)
(* eclipsr (src/eclipsr/eclipse_finding.py).                               *)
(*                                                                         *)
(* Conventions.                                                            *)
(*  - numpy arrays are sequences; Python index i is position i+1.  Index   *)
(*    arrays that the code keeps ascending (np.arange(n)[mask]) are sets   *)
(*    of Python indices, read in ascending order.                          *)
(*  - Floating point numbers are fixed point integers: a time, width or    *)
(*    period is a number of 1/TU days, a phase a number of 1/PS cycles;    *)
(*    a quotient is rounded down where the code divides.  In the period   *)
(*    search comparisons of means, ratios and standard deviations are     *)
(*    made exactly, by cross multiplication; in the matching of in- and   *)
(*    egresses they are made in thousandths and hundredths.               *)
(*  - A Python exception ends the call: pc = "raised", with its type.      *)
(***************************************************************************)
EXTENDS Integers, Sequences, FiniteSets, TLC

\* fixed point scales: time units per day, phase units per cycle
TU == 100 * 1000
PQ == 10 * 10
PS == PQ * PQ

---------------------------------------------------------------------------
(* numpy helpers *)

Abs(x) == IF x < 0 THEN -x ELSE x
Max2(a, b) == IF a >= b THEN a ELSE b
Min2(a, b) == IF a <= b THEN a ELSE b
\* ceil(a / b) for b > 0 (\div rounds down)
CeilDiv(a, b) == -((-a) \div b)
\* floor(a * m * m / c) for a >= 0 and c > 0, in two steps to stay within 32 bits
FloorRatio(a, m, c) == ((a * m) \div c) * m + (((a * m) % c) * m) \div c

Range(s) == {s[i] : i \in DOMAIN s}
SetMax(S) == CHOOSE x \in S : \A y \in S : y <= x
SetMin(S) == CHOOSE x \in S : \A y \in S : x <= y
\* the member of a set of one member
The(S) == CHOOSE x \in S : TRUE

RECURSIVE SumSeq(_)
SumSeq(s) == IF s = <<>> THEN 0 ELSE Head(s) + SumSeq(Tail(s))

\* a[idx] for an ascending index set idx of Python indices
RECURSIVE Pick(_, _)
Pick(a, idx) ==
    IF idx = {} THEN <<>>
    ELSE LET i == SetMin(idx) IN <<a[i + 1]>> \o Pick(a, idx \ {i})

\* np.sort on a sequence of integers (insertion sort)
RECURSIVE Insert(_, _)
Insert(x, s) ==
    IF s = <<>> THEN <<x>>
    ELSE IF x <= Head(s) THEN <<x>> \o s ELSE <<Head(s)>> \o Insert(x, Tail(s))
RECURSIVE SortInts(_)
SortInts(s) == IF s = <<>> THEN <<>> ELSE Insert(Head(s), SortInts(Tail(s)))

\* twice np.median of a non-empty sequence (so that it stays an integer)
Median2(s) ==
    LET t == SortInts(s)
        n == Len(t)
    IN  IF n % 2 = 1 THEN 2 * t[(n + 1) \div 2] ELSE t[n \div 2] + t[n \div 2 + 1]

\* np.diff
Diff(s) == [i \in 1..(Len(s) - 1) |-> s[i + 1] - s[i]]

\* np.argmax, np.argmin: the Python index of the first extreme value
ArgMax(s) == CHOOSE i \in 0..(Len(s) - 1) :
                /\ \A j \in 0..(Len(s) - 1) : s[j + 1] <= s[i + 1]
                /\ \A j \in 0..(i - 1) : s[j + 1] < s[i + 1]
ArgMin(s) == CHOOSE i \in 0..(Len(s) - 1) :
                /\ \A j \in 0..(Len(s) - 1) : s[j + 1] >= s[i + 1]
                /\ \A j \in 0..(i - 1) : s[j + 1] > s[i + 1]

\* np.argsort of distinct keys: sorter[k] is the Python index of the k-th smallest
ArgSort(s) ==
    [k \in 1..Len(s) |->
        CHOOSE i \in 0..(Len(s) - 1) :
            Cardinality({j \in 0..(Len(s) - 1) :
                s[j + 1] < s[i + 1] \/ (s[j + 1] = s[i + 1] /\ j < i)}) = k - 1]

\* a[sorter]
Permute(a, sorter) == [k \in 1..Len(a) |-> a[sorter[k] + 1]]

\* population variance times n^2:  n * sum(x^2) - sum(x)^2
VarN2(s) == Len(s) * SumSeq([i \in DOMAIN s |-> s[i] * s[i]]) - SumSeq(s) * SumSeq(s)

---------------------------------------------------------------------------
(* utility.fold_time_series and the pattern helpers *)

\* ((t - zero) / period + 0.5) % 1 - 0.5, in phase units, for period > 0
FoldOne(t, period, zero) ==
    LET r == (2 * (t - zero) + period) % (2 * period)
    IN  FloorRatio(r, PQ, 2 * period) - PS \div 2
fold_time_series(times, period, zero) ==
    [i \in DOMAIN times |-> FoldOne(times[i], period, zero)]

\* the pattern points t_0 + period * n over the domain; below p_min = 0.1 day
\* the number of points is computed with p_min
construct_range(t_0, period, domain) ==
    LET pp       == IF period < TU \div 10 THEN TU \div 10 ELSE period
        n_before == CeilDiv(domain[1] - t_0, pp)
        n_after  == (domain[2] - t_0) \div pp
    IN  [k \in 1..(n_after - n_before + 1) |-> t_0 + period * (n_before + k - 1)]

\* pattern[i] with Python's wrap of the index -1
PatAt(pattern, i) == IF i < 0 THEN pattern[Len(pattern) + i + 1] ELSE pattern[i + 1]

\* np.searchsorted(pattern, x) on an ascending pattern
SearchSorted(pattern, x) == Cardinality({k \in DOMAIN pattern : pattern[k] < x})

\* index of the nearest pattern point of x, looking left and right of the sorted position
NearestIdx(pattern, x) ==
    LET s  == SearchSorted(pattern, x)
        i  == IF s = Len(pattern) THEN Len(pattern) - 1 ELSE s
        cl == Abs(PatAt(pattern, i) - x) < Abs(x - PatAt(pattern, i - 1))
    IN  IF cl THEN i ELSE i - 1
NearestDist(pattern, x) == Abs(PatAt(pattern, NearestIdx(pattern, x)) - x)

---------------------------------------------------------------------------
(* pattern_test: goodness of fit of every trial period *)

\* the period grid np.arange(p_min, p_max, p_step), as <<p_min, p_step, length>>
PeriodGrid(ecl_mid, widths, ecl_0, p_max_in, timestep) ==
    LET n      == Len(ecl_mid)
        p_max0 == IF p_max_in = 0 THEN (3 * Median2(Diff(ecl_mid))) \div 2 ELSE p_max_in
        p_max  == Max2(2 * (TU \div 1000), p_max0)
        t_0    == ecl_mid[ecl_0 + 1]
        d_min  == SetMin({Abs(t_0 - ecl_mid[i + 1]) : i \in (0..(n - 1)) \ {ecl_0}})
        p_min0 == (95 * d_min) \div 100
        p_min1 == IF p_max < p_min0 THEN p_max \div 100 ELSE p_min0
        p_min  == Max2(TU \div 1000, p_min1)
        ptp    == SetMax(Range(ecl_mid)) - SetMin(Range(ecl_mid))
        \* np.mean(widths) / (10 * np.ptp(ecl_mid)), a number of days
        step0  == FloorRatio(SumSeq(widths), TU \div 1000, n * ptp)
        p_step == Max2(Min2(step0, p_max \div 100), timestep \div 1000)
        len    == IF p_max > p_min THEN CeilDiv(p_max - p_min, p_step) ELSE 0
    IN  <<p_min, p_step, len>>

GridAt(grid, i) == grid[1] + i * grid[2]

\* the eclipses a trial period p matches: nearer than half the width to the
\* nearest pattern point and nearer than max(0.06, timestep) of the period
MatchedAt(ecl_mid, widths, pattern, p, timestep) ==
    {k \in 0..(Len(ecl_mid) - 1) :
        LET d == NearestDist(pattern, ecl_mid[k + 1])
        IN  /\ widths[k + 1] > 0
            /\ 2 * d < widths[k + 1]
            /\ IF 100 * timestep > 6 * TU
               THEN d * 1000 < (timestep \div (TU \div 1000)) * p
               ELSE 100 * d < 6 * p}

\* gof of one period, in time units; added_snr / snr_div is the weight of an eclipse
GofAt(ecl_mid, added_snr, snr_div, widths, time_frame, t_0, p, timestep) ==
    LET pattern == construct_range(t_0, p, time_frame)
    IN  IF Len(pattern) = 0 THEN 0
        ELSE LET cn_w == MatchedAt(ecl_mid, widths, pattern, p, timestep)
                 ssum == SumSeq(Pick(added_snr, cn_w))
                 dsum == SumSeq([k \in 1..Len(ecl_mid) |->
                            IF (k - 1) \in cn_w THEN NearestDist(pattern, ecl_mid[k]) ELSE 0])
             IN  (Cardinality(cn_w) * ssum * TU) \div (Len(pattern) * snr_div) - dsum

\* the sequence gof over the period grid
pattern_test(ecl_mid, added_snr, snr_div, widths, time_frame, ecl_0, p_max, timestep) ==
    LET grid == PeriodGrid(ecl_mid, widths, ecl_0, p_max, timestep)
    IN  [i \in 1..grid[3] |->
            GofAt(ecl_mid, added_snr, snr_div, widths, time_frame,
                  ecl_mid[ecl_0 + 1], GridAt(grid, i - 1), timestep)]

---------------------------------------------------------------------------
(* extract_pattern: the eclipses that match the pattern (t_0, ecl_period) *)

\* the eclipses nearer than half their width to their nearest pattern point
NearPattern(ecl_mid, widths, pattern) ==
    {k \in 0..(Len(ecl_mid) - 1) :
        /\ widths[k + 1] > 0
        /\ 2 * NearestDist(pattern, ecl_mid[k + 1]) < widths[k + 1]}

\* np.argmin replaced by the first eclipse of the group
FirstOfGroup(added_snr, i_compare, ref_num, ref_den) == SetMin(i_compare)

\* the eclipse of i_compare whose SNR is closest to ref_snr = ref_num / ref_den
\* (np.argmin: the first one at the least distance)
ClosestToRef(added_snr, i_compare, ref_num, ref_den) ==
    CHOOSE k \in i_compare :
        /\ \A j \in i_compare :
              Abs(added_snr[k + 1] * ref_den - ref_num) <= Abs(added_snr[j + 1] * ref_den - ref_num)
        /\ \A j \in i_compare :
              j < k => Abs(added_snr[k + 1] * ref_den - ref_num) < Abs(added_snr[j + 1] * ref_den - ref_num)

\* the loop over the pattern points that occur more than once: pps is the set of
\* points still to handle, taken in ascending order (np.unique)
RECURSIVE ResolveDoubles(_, _, _, _, _, _)
ResolveDoubles(cn_w, pps, ecl_mid, added_snr, pattern, ref) ==
    IF pps = {} THEN cn_w
    ELSE LET pp        == SetMin(pps)
             i_compare == {k \in cn_w : NearestIdx(pattern, ecl_mid[k + 1]) = pp}
             keep      == ClosestToRef(added_snr, i_compare, ref[1], ref[2])
         IN  ResolveDoubles((cn_w \ i_compare) \cup {keep}, pps \ {pp},
                            ecl_mid, added_snr, pattern, ref)

extract_pattern(ecl_mid, widths, added_snr, t_0, ecl_period, time_frame) ==
    LET pattern == construct_range(t_0, ecl_period, time_frame)
        cn_w    == NearPattern(ecl_mid, widths, pattern)
        nn(k)   == NearestIdx(pattern, ecl_mid[k + 1])
        \* an eclipse is a double when the matched eclipse before or after it
        \* (in array order) has the same pattern point
        prev(k) == {j \in cn_w : j < k}
        next(k) == {j \in cn_w : j > k}
        dup     == {k \in cn_w :
                       \/ prev(k) # {} /\ nn(SetMax(prev(k))) = nn(k)
                       \/ next(k) # {} /\ nn(SetMin(next(k))) = nn(k)}
        i_not_double == cn_w \ dup
        ref     == IF i_not_double # {}
                   THEN <<SumSeq(Pick(added_snr, i_not_double)), Cardinality(i_not_double)>>
                   ELSE <<SetMax({added_snr[k + 1] : k \in cn_w}), 1>>
    IN  IF dup = {} THEN cn_w
        ELSE ResolveDoubles(cn_w, {nn(k) : k \in dup}, ecl_mid, added_snr, pattern, ref)

\* extract_pattern indexes pattern[i_nn - 1]: an empty pattern is an IndexError
ExtractRaises(t_0, ecl_period, time_frame) ==
    Len(construct_range(t_0, ecl_period, time_frame)) = 0

---------------------------------------------------------------------------
(* measure_phase_dev and the refinement of the period *)

\* n^2 times the mean absolute phase deviation of the eclipses folded with period p
PhaseDev(p, mids) ==
    LET ph == fold_time_series(mids, p, mids[1])
        n  == Len(mids)
        s  == SumSeq(ph)
    IN  SumSeq([i \in 1..n |-> Abs(n * ph[i] - s)])

\* period_range = np.arange(p_best - dp, p_best + dp, dp / 300)
RefineLen == 600
RangeAt(p_best, dp, i) == p_best - dp + (i * dp) \div 300
measure_phase_dev(p_best, dp, mids) ==
    [i \in 1..RefineLen |-> PhaseDev(RangeAt(p_best, dp, i - 1), mids)]

---------------------------------------------------------------------------
(* add_missing_ecl, test_separation, determine_primary *)

\* the loop over g_candidates (ascending): of the candidates nearer than half a
\* period to candidate i only the one with the highest SNR stays in g_bool
RECURSIVE DropNearby(_, _, _, _, _, _)
DropNearby(g_bool, todo, g_candidates, ecl_mid, added_snr, period) ==
    IF todo = {} THEN g_bool
    ELSE LET i      == SetMin(todo)
             nearby == {c \in g_candidates :
                           2 * Abs(ecl_mid[c + 1] - ecl_mid[i + 1]) < period}
             keep   == CHOOSE c \in nearby :
                           /\ \A d \in nearby : added_snr[d + 1] <= added_snr[c + 1]
                           /\ \A d \in nearby : d < c => added_snr[d + 1] < added_snr[c + 1]
             g_new  == IF Cardinality(nearby) > 1 THEN (g_bool \ nearby) \cup {keep} ELSE g_bool
         IN  DropNearby(g_new, todo \ {i}, g_candidates, ecl_mid, added_snr, period)

\* phases are in phase units; the average phase and width of the group are
\* computed here from the group, as the caller does
add_missing_ecl(group, ecl_mid, widths, phases, added_snr, period) ==
    LET m       == Cardinality(group)
        snr_sum == SumSeq(Pick(added_snr, group))
        snr_var == VarN2(Pick(added_snr, group))
        ph_sum  == SumSeq(Pick(phases, group))
        \* m * g_avg_w in phase units
        w_ph    == FloorRatio(SumSeq(Pick(widths, group)), PQ, period)
        near_snr(k) == IF snr_var = 0
                       THEN Abs(m * added_snr[k + 1] - snr_sum) < 3 * 10 * m
                       ELSE (m * added_snr[k + 1] - snr_sum) * (m * added_snr[k + 1] - snr_sum)
                                < 9 * snr_var
        g_bool  == {k \in 0..(Len(ecl_mid) - 1) :
                       /\ 2 * Abs(m * phases[k + 1] - ph_sum) < w_ph
                       /\ near_snr(k)}
        g_after == DropNearby(g_bool, g_bool, g_bool, ecl_mid, added_snr, period)
    IN  IF Cardinality(g_bool) > m /\ Cardinality(g_after) > m THEN g_after ELSE group

test_separation(variable, group_1, group_2) ==
    LET n_g1 == Cardinality(group_1)
        n_g2 == Cardinality(group_2)
        v1   == Pick(variable, group_1)
        v2   == Pick(variable, group_2)
        \* the two means over the common denominator n_g1 * n_g2
        a    == SumSeq(v1) * n_g2
        b    == SumSeq(v2) * n_g1
    IN  IF n_g2 < 3 \/ n_g1 < 3 THEN FALSE
        ELSE IF n_g1 + n_g2 < 8 THEN 2 * Max2(a, b) > 3 * Min2(a, b)
        ELSE /\ (a - b) * (a - b) > VarN2(v1) * n_g2 * n_g2
             /\ (a - b) * (a - b) > VarN2(v2) * n_g1 * n_g1

MeanGreater(x, g1, g2) ==
    SumSeq(Pick(x, g1)) * Cardinality(g2) > SumSeq(Pick(x, g2)) * Cardinality(g1)

determine_primary(group_1, group_2, depths, widths, added_snr) ==
    IF group_1 # {} /\ group_2 # {}
    THEN IF test_separation(depths, group_1, group_2) THEN MeanGreater(depths, group_1, group_2)
         ELSE IF test_separation(added_snr, group_1, group_2)
              THEN MeanGreater(added_snr, group_1, group_2)
         ELSE IF test_separation(widths, group_1, group_2)
              THEN MeanGreater(widths, group_1, group_2)
         ELSE MeanGreater(added_snr, group_1, group_2)
    ELSE ~(group_1 = {} /\ group_2 # {})

---------------------------------------------------------------------------
(* estimate_period: the search for a second group in the phase histogram *)

\* phases % 1 - 0.5
Phases2(phases) == [i \in DOMAIN phases |-> (phases[i] % PS) - PS \div 2]

HistBins == 50

\* np.histogram range of the values vs: <<lo, hi>>, widened by 0.5 when lo = hi
HistRange(vs) ==
    LET lo == SetMin(Range(vs))
        hi == SetMax(Range(vs))
    IN  IF lo = hi THEN <<lo - PS \div 2, hi + PS \div 2>> ELSE <<lo, hi>>
\* HistBins times edge b
Edge50(rng, b) == HistBins * rng[1] + (rng[2] - rng[1]) * b
\* the bin of value v (the last bin is closed on the right)
BinOf(rng, v) ==
    LET b == ((v - rng[1]) * HistBins) \div (rng[2] - rng[1])
    IN  IF b >= HistBins THEN HistBins - 1 ELSE b
\* the weighted histogram
Histogram(vs, weights, rng) ==
    [b \in 1..HistBins |->
        SumSeq([j \in DOMAIN vs |-> IF BinOf(rng, vs[j]) = b - 1 THEN weights[j] ELSE 0])]

\* the bins further than 0.55 of the g1 width (in phase) from the g1 phase + 0.5
NotG1Bins(rng, g1, phases, widths, period) ==
    LET m     == Cardinality(g1)
        mm    == IF m = 0 THEN 1 ELSE m
        phsum == IF m = 0 THEN 0 ELSE SumSeq(Pick(phases, g1))
        w_ph  == IF m = 0 THEN 0 ELSE FloorRatio(SumSeq(Pick(widths, g1)), PQ, period)
        off(e50) == e50 * mm - HistBins * phsum - (HistBins \div 2) * mm * PS
    IN  {b \in 0..(HistBins - 1) :
            \/ 2 * off(Edge50(rng, b + 1)) > 55 * w_ph
            \/ 2 * off(Edge50(rng, b)) < -(55 * w_ph)}

\* not_included[abs(phases2[not_included] - avg_phase) < phase_lim], avg_phase the
\* mean of phases2 over in_bin (nan, and so no eclipse, when in_bin is empty)
AroundBin(in_bin, not_included, phases2, phase_lim) ==
    LET c == Cardinality(in_bin)
        s == SumSeq(Pick(phases2, in_bin))
    IN  {k \in not_included : c > 0 /\ Abs(c * phases2[k + 1] - s) < c * phase_lim}

\* the b-th (from 0) of the bins in the set bins
RECURSIVE NthBin(_, _)
NthBin(bins, b) == IF b = 0 THEN SetMin(bins) ELSE NthBin(bins \ {SetMin(bins)}, b - 1)

SecondGroup(g1, ecl_mid, widths, added_snr, phases, period, phase_lim) ==
    LET n            == Len(ecl_mid)
        phases2      == Phases2(phases)
        not_incl     == (0..(n - 1)) \ g1
        vals         == [j \in 1..Cardinality(not_incl) |-> Pick(phases2, not_incl)[j] % PS]
        rng          == HistRange(vals)
        not_g1       == NotG1Bins(rng, g1, phases, widths, period)
        hist         == Histogram(vals, Pick(added_snr, not_incl), rng)
        hist_max     == ArgMax(Pick(hist, not_g1))
        bin          == NthBin(not_g1, hist_max)
        in_bin       == {k \in 0..(n - 1) :
                            /\ HistBins * (phases2[k + 1] % PS) >= Edge50(rng, bin)
                            /\ HistBins * (phases2[k + 1] % PS) <= Edge50(rng, bin + 1)}
        g2_a         == AroundBin(in_bin, not_incl, phases2, phase_lim)
        \* fall back to numbers when a single eclipse was found
        vals2        == Pick(phases2, not_incl)
        rng2         == HistRange(vals2)
        hist2        == Histogram(vals2, [j \in DOMAIN vals2 |-> 1], rng2)
        hist_max2    == ArgMax(Pick(hist2, not_g1))
        bin2         == NthBin(not_g1, hist_max2)
        in_bin2      == {k \in 0..(n - 1) :
                            /\ HistBins * phases2[k + 1] >= Edge50(rng2, bin2)
                            /\ HistBins * phases2[k + 1] <= Edge50(rng2, bin2 + 1)}
    IN  IF not_incl = {} \/ not_g1 = {} THEN {}
        ELSE IF Cardinality(g2_a) = 1 /\ hist_max2 > 1
             THEN AroundBin(in_bin2, not_incl, phases2, phase_lim)
             ELSE g2_a

---------------------------------------------------------------------------
(* State *)

VARIABLES
    ep_pc,       \* position in estimate_period: "idle", "start", "estimate", "classify",
                 \* "flags", "done", "raised"
    ep_in,       \* the arguments of the call, as passed
    ep_w,        \* the local arrays (sorted on ecl_mid when n_ecl > 2) and the domain
    ep_period,   \* the local period
    ep_incl,     \* ecl_included
    ep_grp,      \* g1, g2, primary_g1
    ep_out,      \* the returned (t_zero, period, flags_pst)
    ep_err,      \* the exception raised, "none" if none
    as_pc,       \* position in assemble_eclipses: "idle", "start", "high", "mid", "low",
                 \* "overlap", "build", "filter", "done"
    as_call,     \* 1 in the first call, 2 in a second call with the same argument objects
    as_in,       \* the light curve and the contents of the argument arrays at the first call
    as_arg,      \* the caller's arrays added_snr, peaks_edge, peaks_bot, slope_sign
    as_grp,      \* group_high, group_mid, group_low
    as_unused,   \* the candidates the last matching left unused
    as_full,     \* full_ecl
    as_rec,      \* the local ecl_indices, added_snr, flags_lrf
    as_first,    \* what the first call returned
    fe_pc,       \* position in find_eclipses after the assembly: "idle", "measure", "done",
                 \* or "scored" after a call of eclipse_score(_attr)
    fe_out,      \* what find_eclipses or the score function returned
    fn_pc,       \* a call of one of the other functions: "idle", "call" with the
                 \* arguments passed, "done" when it has returned
    fn_in,       \* the function called and its arguments
    fn_out       \* what it returned

ep_vars == <<ep_pc, ep_in, ep_w, ep_period, ep_incl, ep_grp, ep_out, ep_err>>
as_vars == <<as_pc, as_call, as_in, as_arg, as_grp, as_unused, as_full, as_rec, as_first>>
fe_vars == <<fe_pc, fe_out>>
fn_vars == <<fn_pc, fn_in, fn_out>>

\* the float -1 that stands for "not found"
Sentinel == -TU

NoRec == [none |-> TRUE]

\* no call of estimate_period, of assemble_eclipses, of find_eclipses or the
\* score, or of another function is under way
EpIdle ==
    /\ ep_pc = "idle"
    /\ ep_in = NoRec
    /\ ep_w = NoRec
    /\ ep_period = 0
    /\ ep_incl = {}
    /\ ep_grp = NoRec
    /\ ep_out = NoRec
    /\ ep_err = "none"
AsIdle ==
    /\ as_pc = "idle"
    /\ as_call = 0
    /\ as_in = NoRec
    /\ as_arg = NoRec
    /\ as_grp = NoRec
    /\ as_unused = {}
    /\ as_full = <<>>
    /\ as_rec = NoRec
    /\ as_first = NoRec
FeIdle ==
    /\ fe_pc = "idle"
    /\ fe_out = NoRec
FnIdle ==
    /\ fn_pc = "idle"
    /\ fn_in = NoRec
    /\ fn_out = NoRec

---------------------------------------------------------------------------
(* estimate_period *)

\* entry: the masks and the time domain of the eclipse series
EstStart ==
    /\ ep_pc = "start"
    /\ LET n == Len(ep_in.ecl_mid)
       IN  IF n = 0
           THEN \* np.min of an empty array
                /\ ep_pc' = "raised"
                /\ ep_err' = "ValueError"
                /\ UNCHANGED ep_w
           ELSE LET lo  == SetMin(Range(ep_in.ecl_mid))
                    hi  == SetMax(Range(ep_in.ecl_mid))
                    pad == (5 * (hi - lo)) \div (100 * n)
                IN  /\ ep_w' = [ecl_mid   |-> ep_in.ecl_mid,
                                widths    |-> ep_in.widths,
                                depths    |-> ep_in.depths,
                                added_snr |-> ep_in.added_snr,
                                m_full    |-> [i \in 1..n |-> ep_in.flags_lrf[i] = 0],
                                sorter    |-> [i \in 1..n |-> i - 1],
                                domain    |-> <<lo - pad, hi + pad>>]
                    /\ ep_pc' = "estimate"
                    /\ UNCHANGED ep_err
    /\ UNCHANGED <<ep_in, ep_period, ep_incl, ep_grp, ep_out>>
    /\ UNCHANGED <<as_vars, fe_vars, fn_vars>>

\* n_ecl < 2: no eclipses or a single eclipse
EstFew ==
    /\ ep_pc = "estimate"
    /\ Len(ep_w.ecl_mid) < 2
    /\ ep_period' = Sentinel
    /\ ep_incl' = {}
    /\ ep_pc' = "classify"
    /\ UNCHANGED <<ep_in, ep_w, ep_grp, ep_out, ep_err>>
    /\ UNCHANGED <<as_vars, fe_vars, fn_vars>>

\* n_ecl = 2: only one guess possible
EstTwo ==
    /\ ep_pc = "estimate"
    /\ Len(ep_w.ecl_mid) = 2
    /\ LET period == Abs(ep_w.ecl_mid[2] - ep_w.ecl_mid[1])
       IN  IF period < TU \div 100
           THEN ep_period' = Sentinel /\ ep_incl' = {}
           ELSE ep_period' = period /\ ep_incl' = {0, 1}
    /\ ep_pc' = "classify"
    /\ UNCHANGED <<ep_in, ep_w, ep_grp, ep_out, ep_err>>
    /\ UNCHANGED <<as_vars, fe_vars, fn_vars>>

\* the eclipses with SNR above max(mean, 0.5 * max)
HighSnr(added_snr) ==
    {k \in 0..(Len(added_snr) - 1) :
        /\ added_snr[k + 1] * Len(added_snr) > SumSeq(added_snr)
        /\ 2 * added_snr[k + 1] > SetMax(Range(added_snr))}

\* the reference eclipse: the first full eclipse at or above the median SNR of
\* the high SNR eclipses, else the first eclipse at or above it; -1 when there
\* is none (the median of no eclipse is nan)
RefEclipse(added_snr, m_full) ==
    LET high == HighSnr(added_snr)
        t2   == Median2(Pick(added_snr, high))
        ok   == {k \in 0..(Len(added_snr) - 1) : high # {} /\ 2 * added_snr[k + 1] >= t2}
        okf  == {k \in ok : m_full[k + 1]}
    IN  IF okf # {} THEN SetMin(okf) ELSE IF ok # {} THEN SetMin(ok) ELSE -1

\* p_max for the period search
SearchPMax(ecl_mid, added_snr) ==
    LET high == HighSnr(added_snr)
        all3 == (3 * Median2(Diff(ecl_mid))) \div 2
        hi3  == (3 * Median2(Diff(Pick(ecl_mid, high)))) \div 2
    IN  IF Cardinality(high) > 1
        THEN IF hi3 < TU \div 1000 THEN all3 ELSE hi3
        ELSE all3

HalfWidths(widths) == [i \in DOMAIN widths |-> widths[i] \div 2]

\* n_ecl > 2: sort, pick the reference eclipse, search the period grid, refine
EstSearch ==
    /\ ep_pc = "estimate"
    /\ Len(ep_w.ecl_mid) > 2
    /\ LET sorter == ArgSort(ep_w.ecl_mid)
           mid    == Permute(ep_w.ecl_mid, sorter)
           wid    == Permute(ep_w.widths, sorter)
           dep    == Permute(ep_w.depths, sorter)
           snr    == Permute(ep_w.added_snr, sorter)
           mfull  == Permute(ep_w.m_full, sorter)
           ecl_0  == RefEclipse(snr, mfull)
           p_max  == SearchPMax(mid, snr)
           sorted == [ep_w EXCEPT !.ecl_mid = mid, !.widths = wid, !.depths = dep,
                                  !.added_snr = snr, !.m_full = mfull, !.sorter = sorter]
       IN  /\ ep_w' = sorted
           /\ IF ecl_0 = -1
              THEN \* ecl_i[added_snr >= target_snr][0] on an empty selection
                   /\ ep_pc' = "raised" /\ ep_err' = "IndexError"
                   /\ UNCHANGED <<ep_period, ep_incl>>
              ELSE IF ~(p_max > TU \div 1000)
              THEN /\ ep_period' = Sentinel /\ ep_incl' = {}
                   /\ ep_pc' = "classify" /\ UNCHANGED ep_err
              ELSE \E grid \in {PeriodGrid(mid, HalfWidths(wid), ecl_0, p_max, ep_in.timestep)} :
                   IF grid[3] < 2
                   THEN \* np.argmax of an empty gof; np.arange over a nan step
                        /\ ep_pc' = "raised" /\ ep_err' = "ValueError"
                        /\ UNCHANGED <<ep_period, ep_incl>>
                   ELSE \E gof \in {pattern_test(mid, dep, SetMin(Range(dep)), HalfWidths(wid),
                                                 ep_w.domain, ecl_0, p_max, ep_in.timestep)} :
                        \E p_best \in {GridAt(grid, ArgMax(gof))} :
                        \E incl \in {extract_pattern(mid, wid, snr, mid[ecl_0 + 1], p_best,
                                                     ep_w.domain)} :
                        LET dp        == 3 * grid[2]
                            phase_dev == measure_phase_dev(p_best, dp, Pick(mid, incl))
                        IN  /\ ep_period' = RangeAt(p_best, dp, ArgMin(phase_dev))
                            /\ ep_incl' = incl
                            /\ ep_pc' = "classify" /\ UNCHANGED ep_err
    /\ UNCHANGED <<ep_in, ep_grp, ep_out>>
    /\ UNCHANGED <<as_vars, fe_vars, fn_vars>>

\* widths in units of 0.001 day, for the scale free comparisons of test_separation
MilliDays(widths) == [i \in DOMAIN widths |-> widths[i] \div (TU \div 1000)]

\* phases_g12: zero, the phases of g1 folded on t_0, then those of g2 folded on
\* t_0 + period written over them
PhasesG12(ecl_mid, g1, g2, period, t_0) ==
    [i \in DOMAIN ecl_mid |->
        IF (i - 1) \in g2 THEN FoldOne(ecl_mid[i], 2 * period, t_0 + period)
        ELSE IF (i - 1) \in g1 THEN FoldOne(ecl_mid[i], 2 * period, t_0)
        ELSE 0]

\* whether the doubled period gives two significantly different groups
DoublePSep(w, incl, period, t_0) ==
    IF Cardinality(incl) > 2
    THEN LET g1 == extract_pattern(w.ecl_mid, w.widths, w.added_snr, t_0, 2 * period, w.domain)
             g2 == extract_pattern(w.ecl_mid, w.widths, w.added_snr, t_0 + period, 2 * period,
                                   w.domain)
             n_full_ecl == Cardinality({i \in DOMAIN w.m_full : w.m_full[i]})
         IN  \/ n_full_ecl > 3
                /\ test_separation(PhasesG12(w.ecl_mid, g1, g2, period, t_0), g1, g2)
             \/ test_separation(w.depths, g1, g2)
             \/ test_separation(w.added_snr, g1, g2)
             \/ test_separation(MilliDays(w.widths), g1, g2)
    ELSE FALSE

\* max(0.02, 2.4 * timestep / period), in phase units
PhaseLim(timestep, period) == Max2((2 * PS) \div 100, FloorRatio(12 * timestep, PQ, 5 * period))

\* g[(widths[g] > 0.4 * median) & (widths[g] < 0.5 * period)] for groups of more than 2
PruneWidths(g, widths, period) ==
    IF Cardinality(g) > 2
    THEN {k \in g : 5 * widths[k + 1] > Median2(Pick(widths, g)) /\ 2 * widths[k + 1] < period}
    ELSE g

\* the two groups before the choice of the primary: <<g1, g2>>
FormGroups(w, incl, period, double_p_sep, t_0, timestep) ==
    LET p_half  == IF double_p_sep THEN period \div 2 ELSE period
        phases  == fold_time_series(w.ecl_mid, period, t_0)
        phases2 == Phases2(phases)
        \* with the period doubled the groups of the doubling test are kept: they
        \* were extracted at twice the period of then, which is the period of now
        g1_a == extract_pattern(w.ecl_mid, w.widths, w.added_snr, t_0, period, w.domain)
        g2_a == IF double_p_sep
                THEN extract_pattern(w.ecl_mid, w.widths, w.added_snr, t_0 + p_half, period,
                                     w.domain)
                ELSE SecondGroup(g1_a, w.ecl_mid, w.widths, w.added_snr, phases, period,
                                 PhaseLim(timestep, period))
        g1_b == IF g1_a # {}
                THEN add_missing_ecl(g1_a, w.ecl_mid, w.widths, phases, w.added_snr, period)
                ELSE g1_a
        g2_b == IF g2_a # {}
                THEN add_missing_ecl(g2_a, w.ecl_mid, w.widths, phases2, w.added_snr, period)
                ELSE g2_a
    IN  <<PruneWidths(g1_b, w.widths, period), PruneWidths(g2_b, w.widths, period)>>

\* the choice of the primary group: [g1, g2, primary_g1]
ChoosePrimary(w, g1, g2, period) ==
    LET n1 == Cardinality(g1)
        n2 == Cardinality(g2)
    IN  IF n2 < 2 \/ 100 * n2 < 5 * n1
        THEN [g1 |-> g1, g2 |-> {}, primary_g1 |-> TRUE]
        ELSE IF n1 > 2 /\ n2 > 2 /\ 10 * SumSeq(Pick(w.widths, g1)) > 8 * period * n1
        THEN [g1 |-> g1, g2 |-> {}, primary_g1 |-> TRUE]
        ELSE IF n1 > 2 /\ n2 > 2 /\ 10 * SumSeq(Pick(w.widths, g2)) > 8 * period * n2
        THEN [g1 |-> {}, g2 |-> g2, primary_g1 |-> FALSE]
        ELSE [g1 |-> g1, g2 |-> g2,
              primary_g1 |-> determine_primary(g1, g2, w.depths, MilliDays(w.widths), w.added_snr)]

\* period # -1: double the period if that separates two groups, form the
\* groups and choose the primary
EstGroups ==
    /\ ep_pc = "classify"
    /\ ep_period # Sentinel
    /\ LET t_0 == ep_w.ecl_mid[SetMin(ep_incl) + 1]
       IN  \E dbl \in {DoublePSep(ep_w, ep_incl, ep_period, t_0)} :
           \E period \in {IF dbl THEN 2 * ep_period ELSE ep_period} :
           \E g \in {FormGroups(ep_w, ep_incl, period, dbl, t_0, ep_in.timestep)} :
               /\ ep_period' = period
               /\ ep_grp' = ChoosePrimary(ep_w, g[1], g[2], period)
    /\ ep_pc' = "flags"
    /\ UNCHANGED <<ep_in, ep_w, ep_incl, ep_out, ep_err>>
    /\ UNCHANGED <<as_vars, fe_vars, fn_vars>>

\* flags_pst after the two group assignments: g2 is written after g1
GroupFlags(n, grp) ==
    [i \in 1..n |->
        IF (i - 1) \in grp.g2 THEN (IF grp.primary_g1 THEN 2 ELSE 1)
        ELSE IF (i - 1) \in grp.g1 THEN (IF grp.primary_g1 THEN 1 ELSE 2)
        ELSE 3]

\* a variant that revokes any two primaries, whatever their SNR
TooDifferentAlways(flags, added_snr) ==
    Cardinality({i \in DOMAIN flags : flags[i] = 1}) = 2

\* with exactly two primaries of which one has less than half the SNR of the
\* other, all primary and secondary flags are revoked
TooDifferent(flags, added_snr) ==
    LET prim == {i \in DOMAIN flags : flags[i] = 1}
    IN  /\ Cardinality(prim) = 2
        /\ \E a, b \in prim : a # b /\ 2 * added_snr[a] < added_snr[b]

\* np.argsort(ecl_sorter): the position of each original index in the sorter
DeSort(flags, sorter) ==
    [i \in DOMAIN flags |-> flags[CHOOSE k \in DOMAIN sorter : sorter[k] = i - 1]]

\* the flags, the check of two primaries, t_zero and the return
EstFlags ==
    /\ ep_pc = "flags"
    /\ LET n       == Len(ep_w.ecl_mid)
           flags0  == GroupFlags(n, ep_grp)
           revoke  == TooDifferent(flags0, ep_w.added_snr)
           flags1  == IF revoke THEN [i \in 1..n |-> 3] ELSE flags0
           period1 == IF revoke THEN Sentinel ELSE ep_period
           prim    == {i \in 1..n : flags1[i] = 1}
           fprim   == {i \in prim : ep_w.m_full[i]}
           t_zero  == IF fprim # {} THEN ep_w.ecl_mid[SetMin(fprim)]
                      ELSE IF prim # {} THEN ep_w.ecl_mid[SetMin(prim)]
                      ELSE Sentinel
           period2 == IF prim = {} THEN Sentinel ELSE period1
           flags2  == IF n > 2 THEN DeSort(flags1, ep_w.sorter) ELSE flags1
       IN  /\ ep_out' = [t_zero |-> t_zero, period |-> period2, flags_pst |-> flags2]
           /\ ep_period' = period2
    /\ ep_pc' = "done"
    /\ UNCHANGED <<ep_in, ep_w, ep_incl, ep_grp, ep_err>>
    /\ UNCHANGED <<as_vars, fe_vars, fn_vars>>

\* period = -1: nothing found
EstSentinel ==
    /\ ep_pc = "classify"
    /\ ep_period = Sentinel
    /\ ep_out' = [t_zero |-> Sentinel, period |-> ep_period,
                  flags_pst |-> [i \in 1..Len(ep_w.ecl_mid) |-> 3]]
    /\ ep_pc' = "done"
    /\ UNCHANGED <<ep_in, ep_w, ep_period, ep_incl, ep_grp, ep_err>>
    /\ UNCHANGED <<as_vars, fe_vars, fn_vars>>

---------------------------------------------------------------------------
(* The calls of estimate_period that are explored *)

\* the largest number of eclipses in a call
MaxEcl == 4

\* an eclipse: <<ecl_mid, width, depth, added_snr, flags_lrf>>; a family is a
\* list of eclipses of one light curve with its timestep, and a call passes
\* some of them, in the order of the list
Family1 == [timestep |-> 2000, ecl |-> <<
    <<60000, 10000, 10, 52, 0>>, <<10000, 10000, 10, 50, 0>>, <<35000, 6000, 4, 20, 0>>,
    <<110000, 10000, 10, 60, 0>>, <<85000, 6000, 4, 22, 0>>, <<60500, 2000, 1, 12, 2>>,
    <<160000, 10000, 10, 110, 1>> >>]
Family2 == [timestep |-> 20000, ecl |-> <<
    <<60000, 20000, 4, 12, 1>>, <<72000, 30000, 1, 10, 0>>, <<165000, 6000, 10, 22, 2>>,
    <<191000, 2000, 20, 50, 2>>, <<111000, 4000, 10, 52, 2>>, <<20100, 20000, 20, 30, 2>>,
    <<5100, 100000, 2, 10, 0>> >>]
Family3 == [timestep |-> 2000, ecl |-> <<
    <<0, 10000, 10, 50, 1>>, <<19000, 10000, 10, 50, 2>>, <<20000, 10000, 5, 50, 2>>,
    <<38000, 10000, 10, 50, 1>>, <<40000, 10000, 5, 50, 0>>, <<98000, 10000, 10, 100, 0>>,
    <<103000, 10000, 10, 100, 0>> >>]
Families == {Family1, Family2, Family3}

\* the sub-lists of 1..n with at most MaxEcl elements, as ascending sequences
RECURSIVE SubLists(_, _)
SubLists(lo, n) ==
    IF lo > n THEN {<<>>}
    ELSE SubLists(lo + 1, n) \cup
         {<<lo>> \o s : s \in {t \in SubLists(lo + 1, n) : Len(t) < MaxEcl}}

CallOf(fam, sel) ==
    [ecl_mid   |-> [i \in DOMAIN sel |-> fam.ecl[sel[i]][1]],
     widths    |-> [i \in DOMAIN sel |-> fam.ecl[sel[i]][2]],
     depths    |-> [i \in DOMAIN sel |-> fam.ecl[sel[i]][3]],
     added_snr |-> [i \in DOMAIN sel |-> fam.ecl[sel[i]][4]],
     flags_lrf |-> [i \in DOMAIN sel |-> fam.ecl[sel[i]][5]],
     timestep  |-> fam.timestep]

\* the refinement of the period looks at the periods p_best - dp .. p_best + dp,
\* dp three grid steps; the calls explored are those in which all of these are
\* positive whatever p_best is
RefinementPositive(in) ==
    \/ Len(in.ecl_mid) < 3
    \/ LET sorter == ArgSort(in.ecl_mid)
           mid    == Permute(in.ecl_mid, sorter)
           snr    == Permute(in.added_snr, sorter)
           ecl_0  == RefEclipse(snr, Permute([i \in DOMAIN in.flags_lrf |-> in.flags_lrf[i] = 0],
                                             sorter))
           p_max  == SearchPMax(mid, snr)
       IN  \/ ecl_0 = -1
           \/ ~(p_max > TU \div 1000)
           \/ \E grid \in {PeriodGrid(mid, HalfWidths(Permute(in.widths, sorter)), ecl_0, p_max,
                                      in.timestep)} :
                 grid[3] < 2 \/ grid[1] > 3 * grid[2]

EstimateCalls ==
    {in \in {CallOf(fam, sel) : fam \in Families, sel \in SubLists(1, 7)} :
        RefinementPositive(in)}

InitPeriod ==
    /\ ep_pc = "start"
    /\ ep_in \in EstimateCalls
    /\ ep_w = NoRec
    /\ ep_period = 0
    /\ ep_incl = {}
    /\ ep_grp = NoRec
    /\ ep_out = NoRec
    /\ ep_err = "none"
    /\ as_pc = "idle"
    /\ as_call = 0
    /\ as_in = NoRec
    /\ as_arg = NoRec
    /\ as_grp = NoRec
    /\ as_unused = {}
    /\ as_full = <<>>
    /\ as_rec = NoRec
    /\ as_first = NoRec
    /\ fe_pc = "idle"
    /\ fe_out = NoRec
    /\ FnIdle

NextPeriod ==
    \/ EstStart
    \/ EstFew
    \/ EstTwo
    \/ EstSearch
    \/ EstGroups
    \/ EstFlags
    \/ EstSentinel

vars == <<ep_vars, as_vars, fe_vars, fn_vars>>

SpecPeriod == InitPeriod /\ [][NextPeriod]_vars

---------------------------------------------------------------------------
(* Properties of estimate_period *)

Returned == ep_pc = "done"
AllOther(flags) == \A i \in DOMAIN flags : flags[i] = 3
NothingFound == ep_out.t_zero = Sentinel /\ ep_out.period = Sentinel /\ AllOther(ep_out.flags_pst)

\* C1: whenever estimate_period returns period = -1 it also returns
\* t_zero = -1 and flags every eclipse 3: no eclipse stays primary (1) or
\* secondary (2) when no period is reported.
C1_NoPeriodAllOther ==
    (Returned /\ ep_out.period = Sentinel) =>
        (ep_out.t_zero = Sentinel /\ AllOther(ep_out.flags_pst))

\* C3: estimate_period called with fewer than 2 eclipses (zero or one) returns
\* t_zero = -1, period = -1 and flags all 3, as a value and without raising.
C3_FewReturnNothingFound ==
    Len(ep_in.ecl_mid) < 2 =>
        /\ ep_pc # "raised"
        /\ Returned => NothingFound

Separation == Abs(ep_in.ecl_mid[2] - ep_in.ecl_mid[1])
\* neither of the two eclipses has less than half the SNR of the other
AlikeSnr == /\ 2 * ep_in.added_snr[1] >= ep_in.added_snr[2]
            /\ 2 * ep_in.added_snr[2] >= ep_in.added_snr[1]

\* C4 as stated: estimate_period called with exactly 2 eclipses at least 0.01
\* apart returns period = |ecl_mid[1] - ecl_mid[0]|, and the sentinel -1 only
\* when the separation is below 0.01.
C4_TwoReturnSeparation ==
    (Returned /\ Len(ep_in.ecl_mid) = 2) =>
        ep_out.period = (IF Separation >= TU \div 100 THEN Separation ELSE Sentinel)

\* C4 amended: with exactly 2 eclipses (of positive width) the period returned
\* is the separation or -1; it is -1 when the separation is below 0.01; it is
\* the separation when the separation is at least 0.01 and neither eclipse has
\* less than half the SNR of the other; and when it is -1 with a separation of
\* at least 0.01, one eclipse has less than half the SNR of the other and
\* nothing is found (t_zero = -1, all flags 3).
C4_TwoReturnSeparationIfAlike ==
    (Returned /\ Len(ep_in.ecl_mid) = 2 /\ \A i \in 1..2 : ep_in.widths[i] > 0) =>
        /\ ep_out.period \in {Separation, Sentinel}
        /\ Separation < TU \div 100 => ep_out.period = Sentinel
        /\ (Separation >= TU \div 100 /\ AlikeSnr) => ep_out.period = Separation
        /\ (Separation >= TU \div 100 /\ ep_out.period = Sentinel) => (~AlikeSnr /\ NothingFound)

\* two eclipses 0.01 or more apart and alike in SNR, the separation returned
C4_SeparationReturned ==
    /\ Returned /\ Len(ep_in.ecl_mid) = 2
    /\ Separation >= TU \div 100 /\ AlikeSnr
    /\ ep_out.period = Separation

\* the period grid of the search is degenerate: the search is reached and
\* np.arange(p_min, p_max, p_step) has no point (p_min >= p_max) or one point
DegenerateGrid(in) ==
    /\ Len(in.ecl_mid) > 2
    /\ LET sorter == ArgSort(in.ecl_mid)
           mid    == Permute(in.ecl_mid, sorter)
           snr    == Permute(in.added_snr, sorter)
           ecl_0  == RefEclipse(snr, Permute([i \in DOMAIN in.flags_lrf |-> in.flags_lrf[i] = 0],
                                             sorter))
           p_max  == SearchPMax(mid, snr)
       IN  /\ ecl_0 # -1
           /\ p_max > TU \div 1000
           /\ PeriodGrid(mid, HalfWidths(Permute(in.widths, sorter)), ecl_0, p_max,
                         in.timestep)[3] < 2

\* C5: when the period grid of the search is degenerate (empty, or a single
\* point so that no grid spacing exists) estimate_period returns
\* epoch = period = -1 with all eclipses flagged 3 instead of failing.
C5_DegenerateGridNothingFound ==
    DegenerateGrid(ep_in) =>
        /\ ep_pc # "raised"
        /\ Returned => NothingFound

---------------------------------------------------------------------------
(* assemble_eclipses: the SNR categories *)

\* added_snr is kept in quarters, so that the mean of two values is exact
SU == 2 * 2

\* floor(sqrt(n))
RECURSIVE IsqrtIn(_, _, _)
IsqrtIn(n, lo, hi) ==
    IF lo >= hi THEN lo
    ELSE LET mid == (lo + hi + 1) \div 2
         IN  IF mid * mid <= n THEN IsqrtIn(n, mid, hi) ELSE IsqrtIn(n, lo, mid - 1)
Isqrt(n) == IsqrtIn(n, 0, IF n < 46340 THEN n ELSE 46340)

\* local_extremum(a, start, right, maximum): walk while the values do not
\* turn; i is the next position, prev the value walked from
RECURSIVE WalkExtremum(_, _, _, _, _)
WalkExtremum(a, i, prev, step, maximum) ==
    IF i < 0 \/ i > Len(a) - 1 THEN i - step
    ELSE IF (IF maximum THEN prev <= a[i + 1] ELSE prev >= a[i + 1])
         THEN WalkExtremum(a, i + step, a[i + 1], step, maximum)
         ELSE i - step
local_extremum(a, start, right, maximum) ==
    WalkExtremum(a, start + (IF right THEN 1 ELSE -1), a[start + 1],
                 IF right THEN 1 ELSE -1, maximum)

\* np.histogram(added_snr, bins): the range in halves of the SNR unit
\* (widened by 0.5 to each side when all values are equal)
SnrRange(added_snr) ==
    LET lo == SetMin(Range(added_snr))
        hi == SetMax(Range(added_snr))
    IN  IF lo = hi THEN <<2 * lo - SU, 2 * hi + SU>> ELSE <<2 * lo, 2 * hi>>
\* edge b, times 2 * bins
SnrEdge(rng, bins, b) == bins * rng[1] + (rng[2] - rng[1]) * b
SnrBin(rng, bins, v) ==
    LET b == ((2 * v - rng[1]) * bins) \div (rng[2] - rng[1])
    IN  IF b >= bins THEN bins - 1 ELSE b
SnrHist(added_snr, bins) ==
    [b \in 1..bins |->
        Cardinality({j \in DOMAIN added_snr : SnrBin(SnrRange(added_snr), bins, added_snr[j]) = b - 1})]

\* a with a[lo .. hi] set to zero
ZeroSlice(a, lo, hi) == [b \in DOMAIN a |-> IF b - 1 >= lo /\ b - 1 <= hi THEN 0 ELSE a[b]]

\* np.any(h != 0)
AnyNonZero(h) == \E b \in DOMAIN h : h[b] # 0
\* the histogram without its highest peak: zero from the minimum to the left
\* of the peak to the minimum to its right
hist2(hist) ==
    ZeroSlice(hist, local_extremum(hist, ArgMax(hist), FALSE, FALSE),
              local_extremum(hist, ArgMax(hist), TRUE, FALSE))
\* the second peak, -1 for none
i_max_2(hist) == IF AnyNonZero(hist2(hist)) THEN ArgMax(hist2(hist)) ELSE -1
\* the histogram without its two highest peaks
hist3(hist) ==
    IF AnyNonZero(hist2(hist))
    THEN ZeroSlice(hist2(hist), local_extremum(hist, i_max_2(hist), FALSE, FALSE),
                   local_extremum(hist, i_max_2(hist), TRUE, FALSE))
    ELSE [b \in DOMAIN hist |-> 0]
\* the (up to) three peaks of the histogram, -1 for none, in the order found
HistPeaks(hist) ==
    <<ArgMax(hist), i_max_2(hist), IF AnyNonZero(hist3(hist)) THEN ArgMax(hist3(hist)) ELSE -1>>

\* edges[i] with Python's wrap of the index -1, times 2 * bins
EdgeAt(rng, bins, i) == SnrEdge(rng, bins, IF i < 0 THEN bins + 1 + i ELSE i)

\* the two dividing lines <<divider_1, divider_2>>, times 4 * bins
\* (an SNR v is at or above a divider d when 4 * bins * v >= d), from the
\* range rng of the histogram hist and its peaks arr
Dividers(rng, hist, arr) ==
    LET bins == Len(hist)
        srt  == SortInts(arr)
        e(i) == EdgeAt(rng, bins, i)
        mid23 == e(srt[2]) + e(srt[3])
        found == {i \in Range(arr) : i # -1}
        none  == Cardinality({k \in 1..3 : arr[k] = -1})
        \* the two highest of the three peaks, by histogram height
        byh  == CHOOSE p \in {q \in [1..2 -> 1..3] : q[1] < q[2]} :
                    \A k \in 1..3 : k \notin {p[1], p[2]} =>
                        /\ hist[arr[k] + 1] <= hist[arr[p[1]] + 1]
                        /\ hist[arr[k] + 1] <= hist[arr[p[2]] + 1]
    IN  IF none = 0 /\ \A k \in 1..3 : e(arr[k]) > 20 * SU * 2 * bins
        THEN <<e(arr[byh[1]]) + e(arr[byh[2]]), 0>>
        ELSE IF none = 1 /\ \A i \in found : e(i) > 40 * SU * 2 * bins
        THEN IF 3 * SetMin({hist[b + 1] : b \in srt[2]..(srt[3] - 1)})
                    > 2 * Max2(hist[srt[2] + 1], hist[srt[3] + 1])
             THEN <<0, 0>>
             ELSE <<mid23, 0>>
        ELSE IF srt[1] = -1 /\ srt[2] = -1 THEN <<0, 0>>
        ELSE IF srt[1] = -1 THEN <<mid23, 0>>
        ELSE <<mid23, e(srt[2]) + e(srt[1])>>

\* the three categories <<group_high, group_mid, group_low>> as index sets,
\* for the dividing lines d
SnrGroups(added_snr, d) ==
    LET n    == Len(added_snr)
        bins == Isqrt(n)
        ge(k, dv) == 4 * bins * added_snr[k + 1] >= dv
        high == {k \in 0..(n - 1) : ge(k, d[1])}
        mid  == {k \in 0..(n - 1) : ge(k, d[2]) /\ ~ge(k, d[1])}
        low  == {k \in 0..(n - 1) : ~ge(k, d[2])}
        both == mid # {} /\ SumSeq(Pick(added_snr, mid)) > 60 * SU * Cardinality(mid)
    IN  <<IF both THEN high \cup mid ELSE high, mid, low>>

---------------------------------------------------------------------------
(* match_in_egress *)

\* the statistics are kept in thousandths, means and deviations in hundredths
DS == 10 * 100
HU == 10 * 10

\* a[lo : hi + 1]
Slice(a, lo, hi) == SubSeq(a, lo + 1, hi + 1)
\* np.mean and np.std of a non-empty slice, times HU (the deviation is taken
\* about the lowest value so that the sums stay small)
Mean100(s) == (HU * SumSeq(s)) \div Len(s)
Std100(s) ==
    LET lo == SetMin(Range(s))
    IN  (10 * Isqrt(HU * VarN2([i \in DOMAIN s |-> s[i] - lo]))) \div Len(s)

\* 2 |x - y| / (x + y), times DS
RelDiff(x, y) == (2 * DS * Abs(x - y)) \div (x + y)

\* the candidates of a call c of match_in_egress
DepthSingle(c, k) == c.signal_s[c.peaks_edge[k + 1] + 1] - c.signal_s[c.peaks_bot[k + 1] + 1]
WidthSingle(c, k) == Abs(c.times[c.peaks_bot[k + 1] + 1] - c.times[c.peaks_edge[k + 1] + 1])
TPeak(c, k) == c.times[c.peaks_edge[k + 1] + 1]

\* the combinations without those of the first ingress
CombsAfterFirst(i, until_1, until_2) ==
    LET ne == until_2 - until_1
    IN  [k \in 1..((until_1 - (i + 1)) * ne) |->
            <<(i + 1) + ((k - 1) \div ne), until_1 + ((k - 1) % ne)>>]
\* all combinations of the ingresses i .. until_1 - 1 with the egresses
\* until_1 .. until_2 - 1, the ingress varying slowest
Combs(i, until_1, until_2) ==
    LET ne == until_2 - until_1
    IN  [k \in 1..((until_1 - i) * ne) |-> <<i + ((k - 1) \div ne), until_1 + ((k - 1) % ne)>>]

\* d_stat of each combination, times DS (times are in thousandths of a day)
DStat(c, combs) ==
    LET d_time(k) == TPeak(c, combs[k][2]) - TPeak(c, combs[k][1])
        t_min     == SetMin({d_time(k) : k \in DOMAIN combs})
    IN  [k \in DOMAIN combs |->
            RelDiff(c.added_snr[combs[k][1] + 1], c.added_snr[combs[k][2] + 1])
            + (d_time(k) - t_min)
            + RelDiff(DepthSingle(c, combs[k][1]), DepthSingle(c, combs[k][2]))
            + RelDiff(WidthSingle(c, combs[k][1]), WidthSingle(c, combs[k][2]))]

\* the loop over the candidates: each run of ingresses followed by a run of
\* egresses yields its best combination
RECURSIVE MatchLoop(_, _, _, _)
MatchLoop(c, i, used, full_ecl) ==
    LET m    == Len(c.added_snr)
        last == m - 1
        NegFrom(j) == {k \in j..last : c.neg_slope[k + 1]}
        PosFrom(j) == {k \in j..last : c.pos_slope[k + 1]}
    IN  IF i > last THEN full_ecl
        ELSE IF i = last \/ NegFrom(i) = {} THEN MatchLoop(c, i + 1, used \cup {i}, full_ecl)
        ELSE LET until_1 == SetMin(NegFrom(i))
                 until_2 == IF until_1 = last \/ PosFrom(until_1) = {}
                            THEN until_1 + 1 ELSE SetMin(PosFrom(until_1))
                 combs   == Combs(i, until_1, until_2)
             IN  IF i \notin used /\ c.pos_slope[i + 1]
                 THEN MatchLoop(c, i + 1, used \cup (i..(until_2 - 1)),
                                IF until_2 - i > 1 /\ Len(combs) > 0
                                THEN Append(full_ecl, combs[ArgMin(DStat(c, combs)) + 1])
                                ELSE full_ecl)
                 ELSE MatchLoop(c, i + 1, used, full_ecl)

\* the checks on one combination: the level inside against the level outside,
\* gaps in the eclipse, and the difference in added_snr
Passed(c, ecl) ==
    LET max_i == Len(c.times) - 1
        pk1   == c.peaks_edge[ecl[1] + 1]
        pk2   == c.peaks_edge[ecl[2] + 1]
        b1    == c.peaks_bot[ecl[1] + 1]
        b2    == c.peaks_bot[ecl[2] + 1]
        h1    == IF b1 > b2 THEN (pk1 + b1) \div 2 ELSE b1
        h2    == IF b1 > b2 THEN (pk2 + b2) \div 2 ELSE b2
        pk1b  == IF h1 > h2 THEN pk1 ELSE h1
        pk2b  == IF h1 > h2 THEN pk2 ELSE h2
        in    == Slice(c.signal_s, pk1b, pk2b)
        pk1_l == Max2(0, Min2(pk1 - (pk2 - pk1) \div 2, max_i))
        pk2_r == Max2(0, Min2(pk2 + (pk2 - pk1) \div 2, max_i - 1))
        left  == Slice(c.signal_s, pk1_l, pk1)
        right == Slice(c.signal_s, pk2, pk2_r)
        avg_outside == IF pk1 > 0 /\ pk2 < max_i THEN Mean100(left) \div 2 + Mean100(right) \div 2
                       ELSE IF pk1 > 0 THEN Mean100(left)
                       ELSE IF pk2 < max_i THEN Mean100(right)
                       ELSE 0
        std_outside == IF pk1 > 0 /\ pk2 < max_i THEN Std100(left) \div 2 + Std100(right) \div 2
                       ELSE IF pk1 > 0 THEN Std100(left)
                       ELSE IF pk2 < max_i THEN Std100(right)
                       ELSE 0
        std   == Min2(Std100(in), std_outside)
        full_width == c.times[pk2 + 1] - c.times[pk1 + 1]
        a     == c.added_snr[ecl[1] + 1]
        b     == c.added_snr[ecl[2] + 1]
    IN  /\ avg_outside - Mean100(in) > std
        \* (pk2 - pk1) / (full_width / t_step) > 0.5, with t_step half of Median2
        /\ (pk2 - pk1) * Median2(Diff(c.times)) > full_width
        /\ 10 * Max2(a, b) < 18 * Min2(a, b)

\* match_in_egress without the checks on the combinations
MatchUnchecked(c) ==
    The({ <<full_ecl,
            {k \in 0..(Len(c.added_snr) - 1) :
                \A j \in DOMAIN full_ecl : k # full_ecl[j][1] /\ k # full_ecl[j][2]}>> :
          full_ecl \in {MatchLoop(c, 0, {}, <<>>)} })

\* <<full_ecl, not_used>>: the combinations that passed, and the candidates
\* not in any of them
match_in_egress(c) ==
    The({ <<full_ecl,
            {k \in 0..(Len(c.added_snr) - 1) :
                \A j \in DOMAIN full_ecl : k # full_ecl[j][1] /\ k # full_ecl[j][2]}>> :
          full_ecl \in {SelectSeq(MatchLoop(c, 0, {}, <<>>), LAMBDA ecl : Passed(c, ecl))} })

---------------------------------------------------------------------------
(* The light curves that are assembled *)

\* the largest number of features in a light curve
MaxSlots == 5

\* a feature <<kind, depth, snr of the ingress, snr of the egress>>: a full
\* eclipse "F", a lone ingress "I", a lone egress "E", or a dip "S" of a
\* single point; each takes ten samples of the light curve
Shapes == { <<"F", 10, 70, 72>>, <<"F", 30, 200, 210>>, <<"I", 10, 72, 0>>,
            <<"E", 10, 0, 72>>, <<"S", 20, 90, 90>> }
HasIngress(sh) == sh[1] \in {"F", "I", "S"}
HasEgress(sh)  == sh[1] \in {"F", "E", "S"}
\* sample offsets within the ten samples: the outer and the inner point of the
\* ingress and the inner and the outer point of the egress
Offsets(sh) == IF sh[1] = "S" THEN <<2, 3, 3, 4>> ELSE <<2, 4, 6, 8>>

\* twice the fraction of a linear ramp from sample a to sample b reached at r
Ramp2(a, b, r) == IF r <= a THEN 0 ELSE IF r >= b THEN 2 ELSE (2 * (r - a)) \div (b - a)

\* how far feature sh, r samples after its start, lowers the flux
Drop(sh, r) ==
    LET o == Offsets(sh)
    IN  (sh[2] * ((IF HasIngress(sh) THEN Ramp2(o[1], o[2], r) ELSE 0)
                  - (IF HasEgress(sh) THEN Ramp2(o[3], o[4], r) ELSE 0))) \div 2

\* the candidates of a list of features, in time order:
\* <<peaks_edge, peaks_bot, slope_sign, added_snr>>
RECURSIVE Candidates(_, _)
Candidates(curve, s) ==
    IF s > Len(curve) THEN <<>>
    ELSE LET sh == curve[s]
             o  == Offsets(sh)
             b  == 10 * (s - 1)
         IN  (IF HasIngress(sh) THEN << <<b + o[1], b + o[2], 1, SU * sh[3]>> >> ELSE <<>>)
             \o (IF HasEgress(sh) THEN << <<b + o[4], b + o[3], -1, SU * sh[4]>> >> ELSE <<>>)
             \o Candidates(curve, s + 1)

\* the arguments of assemble_eclipses for a list of features: times in
\* thousandths of a day, twenty apart; the smoothed signal is the signal
CurveOf(curve) ==
    LET len  == 10 * Len(curve) + 1
        cand == Candidates(curve, 1)
        sig  == [j \in 1..len |->
                    1000 - SumSeq([s \in DOMAIN curve |-> Drop(curve[s], (j - 1) - 10 * (s - 1))])]
    IN  [times      |-> [j \in 1..len |-> 20 * (j - 1)],
         signal     |-> sig,
         signal_s   |-> sig,
         peaks_edge |-> [k \in DOMAIN cand |-> cand[k][1]],
         peaks_bot  |-> [k \in DOMAIN cand |-> cand[k][2]],
         slope_sign |-> [k \in DOMAIN cand |-> cand[k][3]],
         added_snr  |-> [k \in DOMAIN cand |-> cand[k][4]]]

LightCurves == {CurveOf(curve) : curve \in UNION {[1..k -> Shapes] : k \in 0..MaxSlots}}

\* the argument arrays of the caller
ArgsOf(in) == [added_snr  |-> in.added_snr,
               peaks_edge |-> in.peaks_edge,
               peaks_bot  |-> in.peaks_bot,
               slope_sign |-> in.slope_sign]

InitAssemble ==
    /\ as_pc = "start"
    /\ as_call = 1
    /\ as_in \in LightCurves
    /\ as_arg = ArgsOf(as_in)
    /\ as_grp = NoRec
    /\ as_unused = {}
    /\ as_full = <<>>
    /\ as_rec = NoRec
    /\ as_first = NoRec
    /\ fe_pc = "idle"
    /\ fe_out = NoRec
    /\ ep_pc = "idle"
    /\ ep_in = NoRec
    /\ ep_w = NoRec
    /\ ep_period = 0
    /\ ep_incl = {}
    /\ ep_grp = NoRec
    /\ ep_out = NoRec
    /\ ep_err = "none"
    /\ FnIdle

---------------------------------------------------------------------------
(* assemble_eclipses *)

\* a half eclipse that takes the edge for the outer point of both sides
HalfRowBothEdges(arg, k) ==
    IF arg.slope_sign[k + 1] = 1
    THEN <<arg.peaks_edge[k + 1], arg.peaks_bot[k + 1], arg.peaks_bot[k + 1], arg.peaks_edge[k + 1]>>
    ELSE <<arg.peaks_edge[k + 1], arg.peaks_bot[k + 1], arg.peaks_bot[k + 1], arg.peaks_edge[k + 1]>>
\* the half eclipse of candidate k: <<left outer, left inner, right inner, right outer>>
HalfRow(arg, k) ==
    IF arg.slope_sign[k + 1] = 1
    THEN <<arg.peaks_edge[k + 1], arg.peaks_bot[k + 1], arg.peaks_bot[k + 1], arg.peaks_bot[k + 1]>>
    ELSE IF arg.slope_sign[k + 1] = -1
    THEN <<arg.peaks_bot[k + 1], arg.peaks_bot[k + 1], arg.peaks_bot[k + 1], arg.peaks_edge[k + 1]>>
    ELSE <<0, 0, 0, 0>>
HalfFlag(arg, k) ==
    IF arg.slope_sign[k + 1] = 1 THEN 1 ELSE IF arg.slope_sign[k + 1] = -1 THEN 2 ELSE 0

\* no candidates
AsmNone ==
    /\ as_pc = "start"
    /\ Len(as_arg.added_snr) = 0
    /\ as_rec' = [ecl_indices |-> <<>>, added_snr |-> as_arg.added_snr, flags_lrf |-> <<>>]
    /\ as_pc' = "filter"
    /\ UNCHANGED <<as_call, as_in, as_arg, as_grp, as_unused, as_full, as_first>>
    /\ UNCHANGED <<ep_vars, fe_vars, fn_vars>>

\* just one candidate in/egress
AsmSingle ==
    /\ as_pc = "start"
    /\ Len(as_arg.added_snr) = 1
    /\ as_rec' = [ecl_indices |->
                      << <<IF as_arg.slope_sign[1] = 1 THEN as_arg.peaks_edge[1]
                           ELSE IF as_arg.slope_sign[1] = -1 THEN as_arg.peaks_bot[1] ELSE 0,
                           as_arg.peaks_bot[1],
                           as_arg.peaks_bot[1],
                           IF as_arg.slope_sign[1] = -1 THEN as_arg.peaks_edge[1]
                           ELSE IF as_arg.slope_sign[1] = 1 THEN as_arg.peaks_bot[1] ELSE 0>> >>,
                  added_snr   |-> as_arg.added_snr,
                  flags_lrf   |-> <<IF as_arg.slope_sign[1] = -1 THEN 2 ELSE 1>>]
    /\ as_pc' = "filter"
    /\ UNCHANGED <<as_call, as_in, as_arg, as_grp, as_unused, as_full, as_first>>
    /\ UNCHANGED <<ep_vars, fe_vars, fn_vars>>

\* two or more candidates: the SNR categories from the histogram
AsmTiers ==
    /\ as_pc = "start"
    /\ Len(as_arg.added_snr) > 1
    /\ \E hist \in {SnrHist(as_arg.added_snr, Isqrt(Len(as_arg.added_snr)))} :
       \E d \in {Dividers(SnrRange(as_arg.added_snr), hist, HistPeaks(hist))} :
       \E g \in {SnrGroups(as_arg.added_snr, d)} :
          as_grp' = [high |-> g[1], mid |-> g[2], low |-> g[3]]
    /\ as_pc' = "high"
    /\ UNCHANGED <<as_call, as_in, as_arg, as_unused, as_full, as_rec, as_first>>
    /\ UNCHANGED <<ep_vars, fe_vars, fn_vars>>

\* the call of match_in_egress on the candidates of a category
GroupCall(group) ==
    [times      |-> as_in.times,
     signal_s   |-> as_in.signal_s,
     added_snr  |-> Pick(as_arg.added_snr, group),
     peaks_edge |-> Pick(as_arg.peaks_edge, group),
     peaks_bot  |-> Pick(as_arg.peaks_bot, group),
     neg_slope  |-> Pick([k \in DOMAIN as_arg.slope_sign |-> as_arg.slope_sign[k] = -1], group),
     pos_slope  |-> Pick([k \in DOMAIN as_arg.slope_sign |-> as_arg.slope_sign[k] = 1], group)]
\* indices[group][k]
RECURSIVE NthOf(_, _)
NthOf(group, k) == IF k = 0 THEN SetMin(group) ELSE NthOf(group \ {SetMin(group)}, k - 1)
\* <<the combinations, the unused candidates>> of a category, as indices of all candidates
MatchGroup(group) ==
    The({ <<[j \in DOMAIN m[1] |-> <<NthOf(group, m[1][j][1]), NthOf(group, m[1][j][2])>>],
            {NthOf(group, k) : k \in m[2]}>> :
          m \in {match_in_egress(GroupCall(group))} })

\* match peaks from the highest group
AsmHigh ==
    /\ as_pc = "high"
    /\ \E m \in {MatchGroup(as_grp.high)} :
          /\ as_full' = m[1]
          /\ as_unused' = m[2]
    /\ as_pc' = "mid"
    /\ UNCHANGED <<as_call, as_in, as_arg, as_grp, as_rec, as_first>>
    /\ UNCHANGED <<ep_vars, fe_vars, fn_vars>>

\* match peaks from the middle group, with the peaks the highest group left
\* unused; without a middle group these go to the lowest group
AsmMid ==
    /\ as_pc = "mid"
    /\ IF as_grp.mid # {}
       THEN \E group_mid \in {as_grp.mid \cup as_unused} :
            \E m \in {MatchGroup(group_mid)} :
               /\ as_full' = as_full \o m[1]
               /\ as_unused' = m[2]
               /\ as_grp' = [as_grp EXCEPT !.mid = group_mid, !.low = as_grp.low \cup m[2]]
       ELSE /\ as_grp' = [as_grp EXCEPT !.low = as_grp.low \cup as_unused]
            /\ UNCHANGED <<as_full, as_unused>>
    /\ as_pc' = "low"
    /\ UNCHANGED <<as_call, as_in, as_arg, as_rec, as_first>>
    /\ UNCHANGED <<ep_vars, fe_vars, fn_vars>>

\* match peaks from the lowest group
AsmLow ==
    /\ as_pc = "low"
    /\ IF as_grp.low # {}
       THEN \E m \in {MatchGroup(as_grp.low)} :
               /\ as_full' = as_full \o m[1]
               /\ as_unused' = m[2]
       ELSE UNCHANGED <<as_full, as_unused>>
    /\ as_pc' = "overlap"
    /\ UNCHANGED <<as_call, as_in, as_arg, as_grp, as_rec, as_first>>
    /\ UNCHANGED <<ep_vars, fe_vars, fn_vars>>

\* twice the mean SNR of a combination
MeanSnr2(added_snr, ecl) == added_snr[ecl[1] + 1] + added_snr[ecl[2] + 1]

\* the combinations in whose span an end of combination i lies
Overlapping(full_ecl, i) ==
    {j \in DOMAIN full_ecl :
        \/ full_ecl[i][1] > full_ecl[j][1] /\ full_ecl[i][1] < full_ecl[j][2]
        \/ full_ecl[i][2] > full_ecl[j][1] /\ full_ecl[i][2] < full_ecl[j][2]}

\* the loop over the combinations: of each set of overlapping ones all but
\* those of the highest mean SNR are marked, the others unmarked
RECURSIVE OverlapLoop(_, _, _, _)
OverlapLoop(full_ecl, added_snr, i, overlap) ==
    IF i > Len(full_ecl) THEN overlap
    ELSE LET i_overlap == {i} \cup Overlapping(full_ecl, i)
             top       == SetMax({MeanSnr2(added_snr, full_ecl[j]) : j \in i_overlap})
         IN  OverlapLoop(full_ecl, added_snr, i + 1,
                         IF Overlapping(full_ecl, i) # {}
                         THEN [j \in DOMAIN full_ecl |->
                                  IF j \in i_overlap
                                  THEN MeanSnr2(added_snr, full_ecl[j]) # top
                                  ELSE overlap[j]]
                         ELSE overlap)

\* full_ecl[np.invert(overlap)]
Surviving(full_ecl, overlap) ==
    LET kept == SelectSeq([j \in DOMAIN full_ecl |-> <<full_ecl[j], overlap[j]>>],
                          LAMBDA p : ~p[2])
    IN  [j \in DOMAIN kept |-> kept[j][1]]

\* check overlapping eclipses
AsmOverlap ==
    /\ as_pc = "overlap"
    /\ as_full' = Surviving(as_full, OverlapLoop(as_full, as_arg.added_snr, 1,
                                                 [j \in DOMAIN as_full |-> FALSE]))
    /\ as_pc' = "build"
    /\ UNCHANGED <<as_call, as_in, as_arg, as_grp, as_unused, as_rec, as_first>>
    /\ UNCHANGED <<ep_vars, fe_vars, fn_vars>>

\* the last combination with ingress k
LastWith(full_ecl, k) == full_ecl[SetMax({j \in DOMAIN full_ecl : full_ecl[j][1] = k})]

\* construct the eclipse indices array: a half eclipse per candidate; the
\* ingress of a combination takes the right side of its egress and the mean
\* SNR, which is written into the added_snr array of the caller; the
\* egresses are deleted
AsmBuild ==
    /\ as_pc = "build"
    /\ LET n       == Len(as_arg.added_snr)
           ingress == {as_full[j][1] : j \in DOMAIN as_full}
           egress  == {as_full[j][2] : j \in DOMAIN as_full}
           keep    == (0..(n - 1)) \ egress
           rows    == [k \in 1..n |->
                          IF (k - 1) \in ingress
                          THEN <<HalfRow(as_arg, k - 1)[1], HalfRow(as_arg, k - 1)[2],
                                 HalfRow(as_arg, LastWith(as_full, k - 1)[2])[3],
                                 HalfRow(as_arg, LastWith(as_full, k - 1)[2])[4]>>
                          ELSE HalfRow(as_arg, k - 1)]
           flags   == [k \in 1..n |-> IF (k - 1) \in ingress THEN 0 ELSE HalfFlag(as_arg, k - 1)]
           snr     == [k \in 1..n |->
                          IF (k - 1) \in ingress
                          THEN MeanSnr2(as_arg.added_snr, LastWith(as_full, k - 1)) \div 2
                          ELSE as_arg.added_snr[k]]
       IN  /\ as_arg' = [as_arg EXCEPT !.added_snr = snr]
           /\ as_rec' = [ecl_indices |-> Pick(rows, keep),
                         added_snr   |-> Pick(snr, keep),
                         flags_lrf   |-> Pick(flags, keep)]
    /\ as_pc' = "filter"
    /\ UNCHANGED <<as_call, as_in, as_grp, as_unused, as_full, as_first>>
    /\ UNCHANGED <<ep_vars, fe_vars, fn_vars>>

\* the same with the points at a quarter of the depth counted as below
SeveralBelowOrAt(signal, ecl) ==
    LET ecl_signal == Slice(signal, ecl[1], ecl[4])
        max_signal == SetMax(Range(ecl_signal))
        depth      == max_signal - SetMin(Range(ecl_signal))
    IN  Cardinality({j \in DOMAIN ecl_signal : 4 * ecl_signal[j] <= 4 * max_signal - depth}) > 1
\* whether the signal of an eclipse has more than one point below a quarter of its depth
SeveralBelow(signal, ecl) ==
    LET ecl_signal == Slice(signal, ecl[1], ecl[4])
        max_signal == SetMax(Range(ecl_signal))
        depth      == max_signal - SetMin(Range(ecl_signal))
    IN  Cardinality({j \in DOMAIN ecl_signal : 4 * ecl_signal[j] < 4 * max_signal - depth}) > 1

\* eclipses of just one anomalous data point are removed, unless there are
\* ten or more, or a tenth of all; then the call returns
SinglePointFilter(signal, rec) ==
    LET n    == Len(rec.flags_lrf)
        keep == {k \in 0..(n - 1) : SeveralBelow(signal, rec.ecl_indices[k + 1])}
    IN  IF Len(rec.added_snr) > 0 /\ 10 * (n - Cardinality(keep)) < Max2(100, n)
        THEN [ecl_indices |-> Pick(rec.ecl_indices, keep),
              added_snr   |-> Pick(rec.added_snr, keep),
              flags_lrf   |-> Pick(rec.flags_lrf, keep)]
        ELSE rec
\* the filter of single-point eclipses; the result of the first call is kept
AsmFilter ==
    /\ as_pc = "filter"
    /\ \E out \in {SinglePointFilter(as_in.signal, as_rec)} :
          /\ as_rec' = out
          /\ as_first' = IF as_call = 1 THEN out ELSE as_first
    /\ as_pc' = "done"
    /\ UNCHANGED <<as_call, as_in, as_arg, as_grp, as_unused, as_full>>
    /\ UNCHANGED <<ep_vars, fe_vars, fn_vars>>

\* the caller calls again with the same argument objects
AsmAgain ==
    /\ as_pc = "done"
    /\ as_call = 1
    /\ fe_pc = "idle"
    /\ as_call' = 2
    /\ as_pc' = "start"
    /\ as_grp' = NoRec
    /\ as_unused' = {}
    /\ as_full' = <<>>
    /\ as_rec' = NoRec
    /\ UNCHANGED <<as_in, as_arg, as_first>>
    /\ UNCHANGED <<ep_vars, fe_vars, fn_vars>>

---------------------------------------------------------------------------
(* find_eclipses after the assembly, and the eclipse score *)

\* the (2, 2) arrays of -1 that eclipse_stats returns when it has no flags
NoStats == << <<-1, -1>>, <<-1, -1>> >>

\* eclipse records were assembled: the measurements follow, and in the
\* modes other than 0 the period search and the score
FindMeasure ==
    /\ fe_pc = "idle"
    /\ as_pc = "done"
    /\ as_call = 1
    /\ Len(as_rec.flags_lrf) # 0
    /\ \E mode \in 0..2 : fe_out' = [mode |-> mode]
    /\ fe_pc' = "measure"
    /\ UNCHANGED <<ep_vars, as_vars, fn_vars>>

\* no eclipse records: the sentinels, the statistics of no eclipses in the
\* modes other than 0, and the return by mode
FindNothing ==
    /\ fe_pc = "idle"
    /\ as_pc = "done"
    /\ as_call = 1
    /\ Len(as_rec.flags_lrf) = 0
    /\ \E mode \in 0..2 :
          fe_out' = IF mode = 0
                    THEN [mode |-> mode, ecl_mid |-> <<>>, widths |-> <<>>, depths |-> <<>>,
                          ratios |-> <<>>, added_snr |-> as_rec.added_snr,
                          ecl_indices |-> as_rec.ecl_indices, flags_lrf |-> as_rec.flags_lrf]
                    ELSE IF mode = 2
                    THEN [mode |-> mode, t_0 |-> -1, period |-> -1, score |-> -1,
                          features |-> [k \in 1..6 |-> -1], wide |-> FALSE,
                          width_stats |-> NoStats, depth_stats |-> NoStats,
                          ecl_mid |-> <<>>, widths |-> <<>>, depths |-> <<>>,
                          ratios |-> <<>>, added_snr |-> as_rec.added_snr,
                          ecl_indices |-> as_rec.ecl_indices, flags_lrf |-> as_rec.flags_lrf,
                          flags_pst |-> <<>>]
                    ELSE [mode |-> mode, t_0 |-> -1, period |-> -1, score |-> -1,
                          wide |-> FALSE, width_stats |-> NoStats, depth_stats |-> NoStats]
    /\ fe_pc' = "done"
    /\ UNCHANGED <<ep_vars, as_vars, fn_vars>>

\* the score of a non-empty list of eclipses is a product of factors that lie
\* strictly between -1 and 1; it is not computed here, but taken from these
\* values, in hundredths
ScoreValues == {-(HU \div 2), 0, HU \div 2}

\* the score without the check for an empty list
ScoreOfAny(n_ecl, v) == v
\* the score of n_ecl eclipses, in hundredths: v when there are eclipses, else -1
ScoreOf(n_ecl, v) == IF n_ecl # 0 THEN v ELSE -HU

\* eclipse_score and eclipse_score_attr on the eclipses of the assembled
\* records (one midpoint per record): the score, and for eclipse_score_attr
\* the attributes and the penalty
ScoreCall ==
    /\ fe_pc = "idle"
    /\ as_pc = "done"
    /\ as_call = 1
    /\ \E attr \in BOOLEAN, v \in ScoreValues :
          LET score == ScoreOf(Len(as_rec.flags_lrf), v)
          IN  fe_out' = IF attr
                        THEN [function |-> "eclipse_score_attr", score |-> score,
                              empty |-> Len(as_rec.flags_lrf) = 0]
                        ELSE [function |-> "eclipse_score", score |-> score,
                              empty |-> Len(as_rec.flags_lrf) = 0]
    /\ fe_pc' = "scored"
    /\ UNCHANGED <<ep_vars, as_vars, fn_vars>>

NextAssemble ==
    \/ AsmNone
    \/ AsmSingle
    \/ AsmTiers
    \/ AsmHigh
    \/ AsmMid
    \/ AsmLow
    \/ AsmOverlap
    \/ AsmBuild
    \/ AsmFilter
    \/ AsmAgain
    \/ FindMeasure
    \/ FindNothing
    \/ ScoreCall

SpecAssemble == InitAssemble /\ [][NextAssemble]_vars

---------------------------------------------------------------------------
(* Properties of assemble_eclipses and of the empty result *)

\* the candidates of a combination
Ends(ecl) == {ecl[1], ecl[2]}

\* C2: when the assembly leaves no eclipse record, find_eclipses in mode 1 or 2
\* returns score, t_0 and period -1 (in mode 2 with empty per-eclipse arrays)
\* and does not go on to the measurements; and eclipse_score and
\* eclipse_score_attr return the score -1 for an empty list of eclipses
C2_NoRecordsSentinels ==
    /\ (fe_pc \in {"measure", "done"} /\ Len(as_rec.flags_lrf) = 0 /\ fe_out.mode \in {1, 2}) =>
           /\ fe_pc = "done"
           /\ fe_out.score = -1 /\ fe_out.t_0 = -1 /\ fe_out.period = -1
           /\ fe_out.mode = 2 =>
                  /\ fe_out.ecl_mid = <<>> /\ fe_out.widths = <<>> /\ fe_out.depths = <<>>
                  /\ fe_out.ratios = <<>> /\ fe_out.added_snr = <<>>
                  /\ fe_out.ecl_indices = <<>> /\ fe_out.flags_lrf = <<>>
                  /\ fe_out.flags_pst = <<>>
    /\ (fe_pc = "scored" /\ fe_out.empty) => fe_out.score = -HU
\* find_eclipses has returned in mode 2 for a light curve with candidates of
\* which the assembly left no record
C2_CandidatesButNoRecords ==
    /\ fe_pc = "done"
    /\ fe_out.mode = 2
    /\ Len(as_in.added_snr) > 0

\* C6: when a call of assemble_eclipses has returned, the caller's added_snr,
\* peaks and slope_sign hold the values they held before the first call, and
\* a second call with the same argument objects has returned what the first did
C6_ArgumentsUntouched ==
    as_pc = "done" =>
        /\ as_arg = ArgsOf(as_in)
        /\ as_call = 2 => as_rec = as_first

\* C7: a candidate in a combination of the highest group is not offered to
\* the matching of the middle group, and after the matching of all groups no
\* candidate is in two combinations
C7_NoCandidateMatchedTwice ==
    /\ (as_pc = "mid" /\ as_grp.mid # {}) =>
           \A j \in DOMAIN as_full : Ends(as_full[j]) \cap (as_grp.mid \cup as_unused) = {}
    /\ as_pc = "overlap" =>
           \A j, k \in DOMAIN as_full : j # k => Ends(as_full[j]) \cap Ends(as_full[k]) = {}

\* C8: after the check of overlapping eclipses, no combination that is left
\* has an end strictly inside the span of another one of a different mean SNR
C8_NoOverlapLeft ==
    as_pc = "build" =>
        \A i \in DOMAIN as_full : \A j \in Overlapping(as_full, i) :
            MeanSnr2(as_arg.added_snr, as_full[i]) = MeanSnr2(as_arg.added_snr, as_full[j])

\* the records that hold candidate k: its two points on the left for an
\* ingress, on the right for an egress
RecordsOf(k) ==
    {r \in DOMAIN as_rec.ecl_indices :
        IF as_in.slope_sign[k + 1] = 1
        THEN /\ as_rec.ecl_indices[r][1] = as_in.peaks_edge[k + 1]
             /\ as_rec.ecl_indices[r][2] = as_in.peaks_bot[k + 1]
        ELSE /\ as_rec.ecl_indices[r][3] = as_in.peaks_bot[k + 1]
             /\ as_rec.ecl_indices[r][4] = as_in.peaks_edge[k + 1]}

\* C9: before the filter on single points, every candidate is in exactly one
\* record, the record of a combination that is left has flag 0 and that of
\* another candidate 1 (ingress) or 2 (egress), and there are as many records
\* as candidates minus different combinations that are left
C9_OneRecordEach ==
    as_pc = "filter" =>
        /\ Len(as_rec.flags_lrf) = Len(as_in.added_snr) - Cardinality(Range(as_full))
        /\ Len(as_rec.ecl_indices) = Len(as_rec.flags_lrf)
        /\ \A k \in 0..(Len(as_in.added_snr) - 1) :
              /\ Cardinality(RecordsOf(k)) = 1
              /\ \A r \in RecordsOf(k) :
                    as_rec.flags_lrf[r] =
                        IF \E j \in DOMAIN as_full : k \in Ends(as_full[j]) THEN 0
                        ELSE IF as_in.slope_sign[k + 1] = 1 THEN 1 ELSE 2

\* C10: in the records of assemble_eclipses, before and after the filter on
\* single points, a left half (flag 1) has its right inner point equal to its
\* right outer point and a right half (flag 2) its left outer point equal to
\* its left inner point
C10_HalvesClosed ==
    as_pc \in {"filter", "done"} =>
        \A r \in DOMAIN as_rec.flags_lrf :
            /\ as_rec.flags_lrf[r] = 1 => as_rec.ecl_indices[r][3] = as_rec.ecl_indices[r][4]
            /\ as_rec.flags_lrf[r] = 2 => as_rec.ecl_indices[r][1] = as_rec.ecl_indices[r][2]
\* a call with several candidates has returned a left half and a right half
C10_BothHalvesReturned ==
    /\ as_pc = "done"
    /\ Len(as_in.added_snr) > 1
    /\ \E r \in DOMAIN as_rec.flags_lrf : as_rec.flags_lrf[r] = 1
    /\ \E r \in DOMAIN as_rec.flags_lrf : as_rec.flags_lrf[r] = 2

---------------------------------------------------------------------------
(* The filter on single points on its own *)

\* the largest number of records passed to the filter
MaxRecords == 11

\* a signal with a dip of two low points and a dip of one low point whose
\* wing lies at a quarter of the depth
FilterSignal == <<10, 10, 4, 4, 10, 10, 8, 2, 10, 10>>
WideRow   == <<1, 2, 3, 4>>
BorderRow == <<5, 6, 7, 8>>
\* n records, those numbered in wide on the dip of two points
FilterRecords(n, wide) ==
    [ecl_indices |-> [k \in 1..n |-> IF k \in wide THEN WideRow ELSE BorderRow],
     added_snr   |-> [k \in 1..n |-> SU * (20 + k)],
     flags_lrf   |-> [k \in 1..n |-> 0]]

InitFilter ==
    /\ fn_pc = "call"
    /\ \E n \in 0..MaxRecords : \E wide \in SUBSET (1..n) :
          fn_in = [function |-> "filter", signal |-> FilterSignal, rec |-> FilterRecords(n, wide)]
    /\ fn_out = NoRec
    /\ EpIdle /\ AsIdle /\ FeIdle

FilterCall ==
    /\ fn_pc = "call"
    /\ fn_in.function = "filter"
    /\ fn_out' = SinglePointFilter(fn_in.signal, fn_in.rec)
    /\ fn_pc' = "done"
    /\ UNCHANGED <<fn_in, ep_vars, as_vars, fe_vars>>

NextFilter == FilterCall

SpecFilter == InitFilter /\ [][NextFilter]_vars

\* the records that fail: at most one sample of the span from the left outer
\* to the right outer point lies strictly below the maximum less a quarter of
\* the depth
C11_Failing(signal, rec) ==
    {k \in 0..(Len(rec.ecl_indices) - 1) :
        LET lo   == rec.ecl_indices[k + 1][1]
            hi   == rec.ecl_indices[k + 1][4]
            vals == {signal[j + 1] : j \in lo..hi}
        IN  Cardinality({j \in lo..hi :
                4 * signal[j + 1] < 4 * SetMax(vals) - (SetMax(vals) - SetMin(vals))}) <= 1}
C11_TenFailedAllKept ==
    /\ fn_pc = "done"
    /\ fn_in.function = "filter"
    /\ Cardinality(C11_Failing(fn_in.signal, fn_in.rec)) >= 10
    /\ fn_out = fn_in.rec

---------------------------------------------------------------------------
(* match_in_egress on its own *)

\* the largest number of features in a light curve passed to match_in_egress
MatchSlots == 2

\* the call of match_in_egress on all candidates of a light curve, the SNR of
\* the egresses multiplied by scale
MatchCallOf(in, scale) ==
    [times      |-> in.times,
     signal_s   |-> in.signal_s,
     added_snr  |-> [k \in DOMAIN in.added_snr |->
                        IF in.slope_sign[k] = -1 THEN scale * in.added_snr[k] ELSE in.added_snr[k]],
     peaks_edge |-> in.peaks_edge,
     peaks_bot  |-> in.peaks_bot,
     neg_slope  |-> [k \in DOMAIN in.slope_sign |-> in.slope_sign[k] = -1],
     pos_slope  |-> [k \in DOMAIN in.slope_sign |-> in.slope_sign[k] = 1]]

InitMatch ==
    /\ fn_pc = "call"
    /\ \E k \in 0..MatchSlots : \E curve \in [1..k -> Shapes] : \E scale \in 1..2 :
          fn_in = [function |-> "match_in_egress", c |-> MatchCallOf(CurveOf(curve), scale)]
    /\ fn_out = NoRec
    /\ EpIdle /\ AsIdle /\ FeIdle

MatchCall ==
    /\ fn_pc = "call"
    /\ fn_in.function = "match_in_egress"
    /\ \E m \in {match_in_egress(fn_in.c)} :
          fn_out' = [full_ecl |-> m[1], not_used |-> m[2]]
    /\ fn_pc' = "done"
    /\ UNCHANGED <<fn_in, ep_vars, as_vars, fe_vars>>

NextMatch == MatchCall

SpecMatch == InitMatch /\ [][NextMatch]_vars

\* the candidates are one ingress followed by one egress that pass the checks
C12_CleanPair ==
    /\ fn_in.function = "match_in_egress"
    /\ Len(fn_in.c.added_snr) = 2
    /\ fn_in.c.pos_slope[1] /\ ~fn_in.c.neg_slope[1]
    /\ fn_in.c.neg_slope[2] /\ ~fn_in.c.pos_slope[2]
    /\ Passed(fn_in.c, <<0, 1>>)
\* C12: match_in_egress on one ingress followed by one egress that pass the
\* checks returns the one combination (0, 1) and no candidate as not used
C12_CleanPairMatched ==
    (fn_pc = "done" /\ C12_CleanPair) =>
        /\ fn_out.full_ecl = << <<0, 1>> >>
        /\ fn_out.not_used = {}
\* match_in_egress has returned for one clean ingress and egress
C12_CleanPairReturned ==
    /\ fn_pc = "done"
    /\ C12_CleanPair

---------------------------------------------------------------------------
(* cut_eclipses and mask_eclipses *)

\* the largest number of samples, the largest timestamp and the largest
\* number of eclipses in a call of cut_eclipses and mask_eclipses
MaxTimes == 4
MaxStamp == 5
MaxPairs == 2

\* the loop of cut_eclipses from eclipse e on
RECURSIVE CutLoop(_, _, _, _)
CutLoop(times, eclipses, e, mask) ==
    IF e > Len(eclipses) THEN mask
    ELSE CutLoop(times, eclipses, e + 1,
                 [k \in DOMAIN times |->
                     mask[k] /\ (times[k] < eclipses[e][1] \/ times[k] > eclipses[e][2])])
cut_eclipses(times, eclipses) == CutLoop(times, eclipses, 1, [k \in DOMAIN times |-> TRUE])

\* mask[lo : hi] = False for indices that are not negative
ClearSlice(mask, lo, hi) == [k \in DOMAIN mask |-> mask[k] /\ ~(k - 1 >= lo /\ k - 1 < hi)]
\* the loop of a mask_eclipses that leaves out the right point
RECURSIVE MaskLoopOpen(_, _, _)
MaskLoopOpen(eclipses, e, mask) ==
    IF e > Len(eclipses) THEN mask
    ELSE MaskLoopOpen(eclipses, e + 1, ClearSlice(mask, eclipses[e][1], eclipses[e][2]))
\* the loop of mask_eclipses from eclipse e on
RECURSIVE MaskLoop(_, _, _)
MaskLoop(eclipses, e, mask) ==
    IF e > Len(eclipses) THEN mask
    ELSE MaskLoop(eclipses, e + 1, ClearSlice(mask, eclipses[e][1], eclipses[e][2] + 1))
mask_eclipses(times, eclipses) == MaskLoop(eclipses, 1, [k \in DOMAIN times |-> TRUE])

\* the strictly increasing sequence of the members of a set of timestamps
RECURSIVE Ascending(_)
Ascending(S) == IF S = {} THEN <<>> ELSE <<SetMin(S)>> \o Ascending(S \ {SetMin(S)})

InitMask ==
    /\ fn_pc = "call"
    /\ \E S \in {T \in SUBSET (0..MaxStamp) : Cardinality(T) <= MaxTimes} :
       \E n \in 0..MaxPairs :
       \E eclipses \in [1..n -> (0..(Cardinality(S) - 1)) \X (0..(Cardinality(S) - 1))] :
          fn_in = [function |-> "mask_eclipses", times |-> Ascending(S), eclipses |-> eclipses]
    /\ fn_out = NoRec
    /\ EpIdle /\ AsIdle /\ FeIdle

\* mask_eclipses on pairs of indices and cut_eclipses on the pairs of the
\* timestamps at these indices
MaskCall ==
    /\ fn_pc = "call"
    /\ fn_in.function = "mask_eclipses"
    /\ fn_out' = [mask |-> mask_eclipses(fn_in.times, fn_in.eclipses),
                  cut  |-> cut_eclipses(fn_in.times,
                               [e \in DOMAIN fn_in.eclipses |->
                                   <<fn_in.times[fn_in.eclipses[e][1] + 1],
                                     fn_in.times[fn_in.eclipses[e][2] + 1]>>])]
    /\ fn_pc' = "done"
    /\ UNCHANGED <<fn_in, ep_vars, as_vars, fe_vars>>

NextMask == MaskCall

SpecMask == InitMask /\ [][NextMask]_vars

\* every pair of indices has its first index at or before its second
C13_PairsOrdered ==
    /\ fn_in.function = "mask_eclipses"
    /\ \A e \in DOMAIN fn_in.eclipses : fn_in.eclipses[e][1] <= fn_in.eclipses[e][2]
\* C13: for strictly increasing times and pairs of indices i <= j,
\* mask_eclipses on the pairs and cut_eclipses on the pairs of times return
\* the same mask, False exactly on the samples i .. j of every pair
C13_SameMask ==
    (fn_pc = "done" /\ C13_PairsOrdered) =>
        /\ fn_out.mask = fn_out.cut
        /\ \A k \in DOMAIN fn_in.times :
              fn_out.mask[k] = ~(\E e \in DOMAIN fn_in.eclipses :
                                    k - 1 >= fn_in.eclipses[e][1] /\ k - 1 <= fn_in.eclipses[e][2])
\* two eclipses, one of them ending at the last sample, were masked and some
\* sample was left
C13_TwoMasked ==
    /\ fn_pc = "done"
    /\ C13_PairsOrdered
    /\ Len(fn_in.eclipses) = 2
    /\ \E e \in DOMAIN fn_in.eclipses : fn_in.eclipses[e][2] = Len(fn_in.times) - 1
    /\ \E k \in DOMAIN fn_out.mask : fn_out.mask[k]
    /\ \E k \in DOMAIN fn_out.mask : ~fn_out.mask[k]

---------------------------------------------------------------------------
(* smooth *)

\* the longest array and the widest kernel in a call of smooth
MaxSmoothLen == 4
MaxKernel == 5

\* the two loops over range(0, n_kernel) and range(n_kernel, len(a)): the
\* averages <<sum, divisor>> of the points up to i, and the running sum
RECURSIVE SmoothForward(_, _, _, _, _)
SmoothForward(a, n_kernel, i, sum, a_smooth) ==
    IF i >= Len(a) THEN <<sum, a_smooth>>
    ELSE IF i < n_kernel
    THEN SmoothForward(a, n_kernel, i + 1, sum + a[i + 1],
                       Append(a_smooth, <<sum + a[i + 1], i + 1>>))
    ELSE SmoothForward(a, n_kernel, i + 1, sum - a[i - n_kernel + 1] + a[i + 1],
                       Append(a_smooth, <<sum - a[i - n_kernel + 1] + a[i + 1], n_kernel>>))

\* a_smooth[:-shift] = a_smooth[shift:] for 0 < shift < len(a_smooth)
SlideBack(a_smooth, shift) ==
    [j \in DOMAIN a_smooth |->
        IF j <= Len(a_smooth) - shift THEN a_smooth[j + shift] ELSE a_smooth[j]]

\* the loop over range(-n_2 - n_3 + 1, 0) that calculates the last points
RECURSIVE SmoothTail(_, _, _, _, _)
SmoothTail(a, n_2, i, sum, a_smooth) ==
    IF i >= 0 THEN a_smooth
    ELSE SmoothTail(a, n_2, i + 1, sum - a[Len(a) + (i - n_2 - 1) + 1],
                    [a_smooth EXCEPT ![Len(a) + i + 1] =
                        <<sum - a[Len(a) + (i - n_2 - 1) + 1], -i + n_2>>])

\* smooth(a, n_kernel) without a mask: each point as <<sum, divisor>>. The
\* first loop indexes a and a_smooth up to n_kernel - 1 without a check of
\* the bounds; the slice assignment with n_kernel = 1 assigns len(a) values
\* to an empty slice, which is an error unless len(a) is 1
smooth(a, n_kernel) ==
    LET n_2   == n_kernel \div 2
        n_3   == n_kernel % 2
        shift == n_2 + n_3 - 1
    IN  IF n_kernel > Len(a) THEN [error |-> "out of bounds", a_smooth |-> <<>>]
        ELSE IF (n_2 > 1 \/ n_3 > 0) /\ shift = 0 /\ Len(a) # 1
        THEN [error |-> "ValueError", a_smooth |-> <<>>]
        ELSE [error |-> "none",
              a_smooth |->
                  The({SmoothTail(a, n_2, -n_2 - n_3 + 1, fw[1],
                                  IF (n_2 > 1 \/ n_3 > 0) /\ shift > 0
                                  THEN SlideBack(fw[2], shift) ELSE fw[2]) :
                       fw \in {SmoothForward(a, n_kernel, 0, 0, <<>>)}})]

SmoothValues == {1, 2, 5}

InitSmooth ==
    /\ fn_pc = "call"
    /\ \E len \in 1..MaxSmoothLen : \E a \in [1..len -> SmoothValues] : \E n_kernel \in 1..MaxKernel :
          fn_in = [function |-> "smooth", a |-> a, n_kernel |-> n_kernel]
    /\ fn_out = NoRec
    /\ EpIdle /\ AsIdle /\ FeIdle

\* what a build can make of a call: an access outside the arrays raises an
\* IndexError where the bounds are checked, and is undefined where they are not
Outcomes(out) ==
    IF out.error = "out of bounds"
    THEN {[out EXCEPT !.error = "IndexError"], [out EXCEPT !.error = "undefined"]}
    ELSE {out}

SmoothCall ==
    /\ fn_pc = "call"
    /\ fn_in.function = "smooth"
    /\ fn_out' \in Outcomes(smooth(fn_in.a, fn_in.n_kernel))
    /\ fn_pc' = "done"
    /\ UNCHANGED <<fn_in, ep_vars, as_vars, fe_vars>>

NextSmooth == SmoothCall

SpecSmooth == InitSmooth /\ [][NextSmooth]_vars

\* C14: smooth of a constant array, with a kernel of width 1 up to the length
\* of the array, returns the constant at every index
C14_ConstantKept ==
    (/\ fn_pc = "done"
     /\ fn_in.function = "smooth"
     /\ fn_in.n_kernel <= Len(fn_in.a)
     /\ \A i \in DOMAIN fn_in.a : fn_in.a[i] = fn_in.a[1]) =>
        /\ fn_out.error = "none"
        /\ Len(fn_out.a_smooth) = Len(fn_in.a)
        /\ \A i \in DOMAIN fn_out.a_smooth :
              fn_out.a_smooth[i][1] = fn_in.a[1] * fn_out.a_smooth[i][2]

\* the sum of a[lo .. hi], indices from 0
C15_WindowSum(a, lo, hi) == SumSeq(SubSeq(a, lo + 1, hi + 1))
\* C15: smooth returns for every index the mean of the samples of a window
\* around it, of exactly n_kernel consecutive samples in the interior and of
\* the samples there are at the ends, without reading outside the array, also
\* for an array shorter than n_kernel
C15_FlatAverage ==
    (fn_pc = "done" /\ fn_in.function = "smooth") =>
        /\ fn_out.error = "none"
        /\ Len(fn_out.a_smooth) = Len(fn_in.a)
        /\ \A i \in DOMAIN fn_out.a_smooth :
              \E lo \in 0..(i - 1) : \E hi \in (i - 1)..(Len(fn_in.a) - 1) :
                 /\ hi - lo + 1 <= fn_in.n_kernel
                 /\ (lo > 0 /\ hi < Len(fn_in.a) - 1) => hi - lo + 1 = fn_in.n_kernel
                 /\ fn_out.a_smooth[i] = <<C15_WindowSum(fn_in.a, lo, hi), hi - lo + 1>>
\* the same for kernels of width 2 up to the length of the array
C15_FlatAverageWithin ==
    (/\ fn_pc = "done"
     /\ fn_in.function = "smooth"
     /\ fn_in.n_kernel >= 2
     /\ fn_in.n_kernel <= Len(fn_in.a)) => C15_FlatAverage
\* the same for constant arrays
C14_ConstantKeptFromTwo ==
    fn_in.n_kernel >= 2 => C14_ConstantKept

---------------------------------------------------------------------------
(* mark_gaps and repeat_points_internals *)

\* the largest number of samples and the widest kernel in a call of
\* repeat_points_internals
MaxRepLen == 5
MaxRepKernel == 4

\* gaps before a point is added back: sample k (from 0) starts a gap
GapAfter(times, k) ==
    /\ k < Len(times) - 1
    /\ times[k + 2] - times[k + 1] > 4 * SetMin(Range(Diff(times)))
\* mark_gaps(times): <<gaps, gap_width>>, gaps as the set of the samples at
\* either side of a gap, gap_width one entry for each of them
mark_gaps(times) ==
    LET gaps == {k \in 0..(Len(times) - 1) : GapAfter(times, k) \/ (k > 0 /\ GapAfter(times, k - 1))}
    IN  <<gaps,
          Pick([k \in 1..Len(times) |->
                   IF GapAfter(times, k - 1)
                   THEN (times[k + 1] - times[k]) \div SetMin(Range(Diff(times)))
                   ELSE 1], gaps)>>

\* np.repeat(x, repetitions)
RECURSIVE Repeat(_, _)
Repeat(x, repetitions) ==
    IF x = <<>> THEN <<>>
    ELSE [j \in 1..Head(repetitions) |-> Head(x)] \o Repeat(Tail(x), Tail(repetitions))
\* np.cumsum(repetitions)[k], k from 0
CumSum(repetitions, k) == SumSeq(SubSeq(repetitions, 1, k + 1))
\* the position among the members of a set of its member k, from 1
RankIn(S, k) == Cardinality({j \in S : j <= k})

\* max_repeats without the widths of the gap before
OwnWidths(widths, running) == widths
\* max_repeats[1:] += max_repeats[:-1] on a copy of widths: the sums of
\* neighbours where the right side is taken before the assignment, running
\* sums where the addition is done in place from the left
NeighbourSums(widths, running) ==
    [j \in DOMAIN widths |->
        IF running THEN SumSeq(SubSeq(widths, 1, j))
        ELSE widths[j] + (IF j > 1 THEN widths[j - 1] ELSE 0)]

\* the branch of repeat_points_internals that corrects for gaps, before the
\* start and the end are repeated: <<repetitions, repetition_mask>>
RepeatGaps(times, n_kernel, running) ==
    LET mg        == mark_gaps(times)
        gaps      == mg[1]
        gap_start == [j \in DOMAIN mg[2] |-> mg[2][j] # 1]
        gap_p1    == {k \in gaps : ~gap_start[RankIn(gaps, k)]}
        gap_p2    == {k \in gaps : gap_start[RankIn(gaps, k)]}
        half      == [j \in DOMAIN mg[2] |-> IF mg[2][j] = 1 THEN 0 ELSE (mg[2][j] + 1) \div 2]
        widths    == [j \in DOMAIN half |-> Min2(half[j], n_kernel)]
        sums      == NeighbourSums(half, running)
        max_repeats == [j \in DOMAIN sums |-> Min2(sums[j], n_kernel)]
        repetitions == [k \in 1..Len(times) |->
                           IF (k - 1) \in gaps THEN max_repeats[RankIn(gaps, k - 1)] ELSE 1]
        new_positions(k) == CumSum(repetitions, k) - 1
        gap_edges == {new_positions(k) : k \in gap_p1}
                     \cup {new_positions(k) - (widths[RankIn(gaps, k)] - 1) : k \in gap_p2}
        mask      == Repeat([k \in 1..Len(times) |-> (k - 1) \notin gaps], repetitions)
    IN  <<repetitions, [p \in DOMAIN mask |-> (mask[p] \/ (p - 1) \in gap_edges)]>>

\* repetitions[0] += n_kernel - 1; repetitions[-1] += n_kernel - 1, and the
\* mask with n_kernel - 1 times False at either end
RepeatEnds(r, n_kernel) ==
    <<[k \in DOMAIN r[1] |->
          r[1][k] + (IF k = 1 THEN n_kernel - 1 ELSE 0)
                  + (IF k = Len(r[1]) THEN n_kernel - 1 ELSE 0)],
      [j \in 1..(n_kernel - 1) |-> FALSE] \o r[2] \o [j \in 1..(n_kernel - 1) |-> FALSE]>>

\* repeat_points_internals(times, n_kernel, no_gaps); np.min of the empty
\* array of differences of a single sample raises
repeat_points_internals(times, n_kernel, no_gaps, running) ==
    LET ones == <<[k \in DOMAIN times |-> 1], [k \in DOMAIN times |-> TRUE]>>
    IN  IF n_kernel < 2
        THEN [error |-> "none", repetitions |-> ones[1], repetition_mask |-> ones[2]]
        ELSE IF no_gaps
        THEN The({[error |-> "none", repetitions |-> r[1], repetition_mask |-> r[2]] :
                  r \in {RepeatEnds(ones, n_kernel)}})
        ELSE IF Len(times) < 2
        THEN [error |-> "ValueError", repetitions |-> <<>>, repetition_mask |-> <<>>]
        ELSE The({[error |-> "none", repetitions |-> r[1], repetition_mask |-> r[2]] :
                  r \in {RepeatEnds(RepeatGaps(times, n_kernel, running), n_kernel)}})

\* the time steps of the calls: regular steps, wider steps and gaps
RepSteps == {1, 2, 5, 9}
\* the timestamps from 0 with the given steps
RECURSIVE StampsOf(_, _)
StampsOf(t, steps) == IF steps = <<>> THEN <<t>> ELSE <<t>> \o StampsOf(t + Head(steps), Tail(steps))

InitRepeat ==
    /\ fn_pc = "call"
    /\ \E len \in 1..MaxRepLen : \E steps \in [1..(len - 1) -> RepSteps] :
       \E n_kernel \in 1..MaxRepKernel : \E no_gaps \in BOOLEAN :
          fn_in = [function |-> "repeat_points_internals", times |-> StampsOf(0, steps),
                   n_kernel |-> n_kernel, no_gaps |-> no_gaps]
    /\ fn_out = NoRec
    /\ EpIdle /\ AsIdle /\ FeIdle

\* the in-place addition on overlapping slices gives sums of neighbours or
\* running sums, by the build
RepeatCall ==
    /\ fn_pc = "call"
    /\ fn_in.function = "repeat_points_internals"
    /\ \E running \in BOOLEAN :
          fn_out' = repeat_points_internals(fn_in.times, fn_in.n_kernel, fn_in.no_gaps, running)
    /\ fn_pc' = "done"
    /\ UNCHANGED <<fn_in, ep_vars, as_vars, fe_vars>>

NextRepeat == RepeatCall

SpecRepeat == InitRepeat /\ [][NextRepeat]_vars

\* the mask has the length of the repeated array and, in the block of each
\* sample, exactly one True; and selects x back from np.repeat(x, repetitions)
C16_MaskSelectsOriginal ==
    /\ fn_out.error = "none"
    /\ Len(fn_out.repetitions) = Len(fn_in.times)
    /\ Len(fn_out.repetition_mask) = SumSeq(fn_out.repetitions)
    /\ Cardinality({p \in DOMAIN fn_out.repetition_mask : fn_out.repetition_mask[p]}) = Len(fn_in.times)
    /\ \A k \in DOMAIN fn_in.times :
          Cardinality({p \in (CumSum(fn_out.repetitions, k - 1) - fn_out.repetitions[k] + 1)
                              ..CumSum(fn_out.repetitions, k - 1) :
                          fn_out.repetition_mask[p]}) = 1
    /\ \E x \in {[k \in DOMAIN fn_in.times |-> k]} :
       \E xe \in {Repeat(x, fn_out.repetitions)} :
          SelectSeq([p \in DOMAIN xe |-> IF fn_out.repetition_mask[p] THEN xe[p] ELSE 0],
                    LAMBDA v : v # 0) = x
\* C16: for strictly increasing times, any n_kernel >= 1 and either setting
\* of no_gaps, the repetition mask of repeat_points_internals has the length
\* sum(repetitions) and one True in the block of each sample, so that
\* np.repeat(x, repetitions)[repetition_mask] is x
C16_RoundTrip ==
    (fn_pc = "done" /\ fn_in.function = "repeat_points_internals") => C16_MaskSelectsOriginal
\* the same for times of two or more samples
C16_RoundTripFromTwo ==
    (fn_pc = "done" /\ fn_in.function = "repeat_points_internals" /\ Len(fn_in.times) >= 2) =>
        C16_MaskSelectsOriginal
\* the mask was returned for times with two adjacent gaps and a gap before the
\* last sample, with points repeated
C16_AdjacentGapsReturned ==
    /\ fn_pc = "done"
    /\ fn_in.function = "repeat_points_internals"
    /\ ~fn_in.no_gaps
    /\ fn_in.n_kernel >= 2
    /\ \E k \in 0..(Len(fn_in.times) - 3) :
          GapAfter(fn_in.times, k) /\ GapAfter(fn_in.times, k + 1)
    /\ GapAfter(fn_in.times, Len(fn_in.times) - 2)
    /\ fn_out.error = "none"
    /\ SumSeq(fn_out.repetitions) > Len(fn_in.times) + 2 * (fn_in.n_kernel - 1)

---------------------------------------------------------------------------
(* prepare_derivatives without smoothing *)

\* the largest number of samples in a call of prepare_derivatives
MaxDerivLen == 4

\* fractions <<numerator, denominator>> with a positive denominator
FracSub(x, y) == <<x[1] * y[2] - y[1] * x[2], x[2] * y[2]>>
FracMul(x, y) == <<x[1] * y[1], x[2] * y[2]>>
FracOver(x, k) == <<x[1], x[2] * k>>
FracNeg(x) == <<-x[1], x[2]>>
FracEq(x, y) == x[1] * y[2] = y[1] * x[2]

\* np.diff(np.append(times, 2 * times[-1] - times[-2]))
diff_t(times) ==
    [i \in DOMAIN times |->
        IF i < Len(times) THEN times[i + 1] - times[i]
        ELSE (2 * times[Len(times)] - times[Len(times) - 1]) - times[Len(times)]]

\* the differences of a without the division by the time steps
PlainDifference(a, dt) ==
    [i \in DOMAIN a |->
        IF i < Len(a) THEN FracSub(a[i + 1], a[i]) ELSE FracSub(a[Len(a)], a[Len(a) - 1])]
\* np.append(a[1:] - a[:-1], [a[-1] - a[-2]]) / diff_t
RawDerivative(a, dt) ==
    [i \in DOMAIN a |->
        FracOver(IF i < Len(a) THEN FracSub(a[i + 1], a[i]) ELSE FracSub(a[Len(a)], a[Len(a) - 1]),
                 dt[i])]

\* prepare_derivatives(times, signal, 1): no smoothing, just derivatives
PrepareRaw(times, signal) ==
    LET dt       == diff_t(times)
        deriv_1  == RawDerivative([i \in DOMAIN signal |-> <<signal[i], 1>>], dt)
        deriv_2  == RawDerivative(deriv_1, dt)
        deriv_3  == RawDerivative(deriv_2, dt)
        deriv_13 == [i \in DOMAIN signal |-> FracNeg(FracMul(deriv_1[i], deriv_3[i]))]
    IN  [signal_s |-> signal,
         r_derivs |-> <<deriv_1, deriv_2, deriv_3, deriv_13>>,
         s_derivs |-> <<deriv_1, deriv_2, deriv_3, deriv_13>>]

DerivValues == {0, 1, 3}
DerivSteps == {1, 2}

InitDerive ==
    /\ fn_pc = "call"
    /\ \E len \in 2..MaxDerivLen : \E signal \in [1..len -> DerivValues] :
       \E steps \in [1..(len - 1) -> DerivSteps] :
          fn_in = [function |-> "prepare_derivatives", times |-> StampsOf(0, steps),
                   signal |-> signal, n_kernel |-> 1]
    /\ fn_out = NoRec
    /\ EpIdle /\ AsIdle /\ FeIdle

DeriveCall ==
    /\ fn_pc = "call"
    /\ fn_in.function = "prepare_derivatives"
    /\ fn_in.n_kernel = 1
    /\ fn_out' = PrepareRaw(fn_in.times, fn_in.signal)
    /\ fn_pc' = "done"
    /\ UNCHANGED <<fn_in, ep_vars, as_vars, fe_vars>>

NextDerive == DeriveCall

SpecDerive == InitDerive /\ [][NextDerive]_vars

\* d is the difference quotient of a at every sample but the last
C17_QuotientOf(d, a, times) ==
    \A i \in 1..(Len(times) - 1) :
        FracEq(d[i], FracOver(FracSub(a[i + 1], a[i]), times[i + 1] - times[i]))
\* C17: with n_kernel = 1, prepare_derivatives returns the signal as signal_s,
\* the raw derivatives as the smoothed ones, d1 the difference quotient of the
\* signal, d2 that of d1, d3 that of d2, and d13 = -d1 * d3
C17_PlainDifferences ==
    (fn_pc = "done" /\ fn_in.function = "prepare_derivatives" /\ fn_in.n_kernel = 1) =>
        /\ fn_out.signal_s = fn_in.signal
        /\ fn_out.s_derivs = fn_out.r_derivs
        /\ C17_QuotientOf(fn_out.r_derivs[1], [i \in DOMAIN fn_in.signal |-> <<fn_in.signal[i], 1>>],
                          fn_in.times)
        /\ C17_QuotientOf(fn_out.r_derivs[2], fn_out.r_derivs[1], fn_in.times)
        /\ C17_QuotientOf(fn_out.r_derivs[3], fn_out.r_derivs[2], fn_in.times)
        /\ \A i \in DOMAIN fn_in.times :
              FracEq(fn_out.r_derivs[4][i],
                     FracNeg(FracMul(fn_out.r_derivs[1][i], fn_out.r_derivs[3][i])))
\* the derivatives were returned for uneven steps and a third derivative that
\* is not zero
C17_UnevenReturned ==
    /\ fn_pc = "done"
    /\ fn_in.function = "prepare_derivatives"
    /\ \E i, j \in DOMAIN diff_t(fn_in.times) : diff_t(fn_in.times)[i] # diff_t(fn_in.times)[j]
    /\ \E i \in DOMAIN fn_in.times : fn_out.r_derivs[3][i][1] # 0

---------------------------------------------------------------------------
(* extract_pattern on its own: eclipses sorted by midpoint against one pattern *)

\* the largest number of eclipses and the latest midpoint, in tenths of a day
MaxExtract == 3
MaxMid == 5

\* a tenth of a day
TenthDay == TU \div 10

ExtractWidths == {0, TenthDay, 4 * TenthDay}
ExtractSnr == {1, 2, 4}
ExtractPeriods == {3 * TenthDay, 10 * TenthDay}
ExtractZeros == {TenthDay, 9 * TenthDay}

InitExtract ==
    /\ fn_pc = "call"
    /\ \E S \in {T \in SUBSET (0..MaxMid) : Cardinality(T) \in 1..MaxExtract} :
       \E widths \in [1..Cardinality(S) -> ExtractWidths] :
       \E added_snr \in [1..Cardinality(S) -> ExtractSnr] :
       \E t_0 \in ExtractZeros : \E ecl_period \in ExtractPeriods :
          fn_in = [function |-> "extract_pattern",
                   ecl_mid |-> [i \in 1..Cardinality(S) |-> TenthDay * Ascending(S)[i]],
                   widths |-> widths, added_snr |-> added_snr, t_0 |-> t_0,
                   ecl_period |-> ecl_period, time_frame |-> <<0, MaxMid * TenthDay>>]
    /\ fn_out = NoRec
    /\ EpIdle /\ AsIdle /\ FeIdle

\* an empty pattern is indexed out of bounds (pattern[i_nn]): an IndexError, or
\* any selection of the eclipses where the bounds are not checked
ExtractCall ==
    /\ fn_pc = "call"
    /\ fn_in.function = "extract_pattern"
    /\ IF ExtractRaises(fn_in.t_0, fn_in.ecl_period, fn_in.time_frame)
       THEN \/ fn_out' = [error |-> "IndexError", indices |-> {}]
            \/ \E sel \in SUBSET (0..(Len(fn_in.ecl_mid) - 1)) :
                  fn_out' = [error |-> "undefined", indices |-> sel]
       ELSE fn_out' = [error |-> "none",
                       indices |-> extract_pattern(fn_in.ecl_mid, fn_in.widths, fn_in.added_snr,
                                                   fn_in.t_0, fn_in.ecl_period, fn_in.time_frame)]
    /\ fn_pc' = "done"
    /\ UNCHANGED <<fn_in, ep_vars, as_vars, fe_vars>>

NextExtract == ExtractCall

SpecExtract == InitExtract /\ [][NextExtract]_vars

\* the predicted times of the call and the least distance of x to one of them
C18_Pattern == construct_range(fn_in.t_0, fn_in.ecl_period, fn_in.time_frame)
C18_Least(x) == SetMin({Abs(C18_Pattern[k] - x) : k \in DOMAIN C18_Pattern})
\* the slot of eclipse k, and the eclipses within half their width of a predicted time
C18_Slot(k) == NearestIdx(C18_Pattern, fn_in.ecl_mid[k + 1])
C18_Matched ==
    {k \in 0..(Len(fn_in.ecl_mid) - 1) : 2 * C18_Least(fn_in.ecl_mid[k + 1]) < fn_in.widths[k + 1]}
\* the matched eclipses that compete with k for its slot, k included
C18_Rivals(k) == {j \in C18_Matched : C18_Slot(j) = C18_Slot(k)}
C18_Alone == {k \in C18_Matched : C18_Rivals(k) = {k}}
\* the reference SNR as <<numerator, denominator>>: the mean over the matched
\* eclipses without a rival, or the largest SNR of the matched ones
C18_Ref ==
    IF C18_Alone # {}
    THEN <<SumSeq(Pick(fn_in.added_snr, C18_Alone)), Cardinality(C18_Alone)>>
    ELSE <<SetMax({fn_in.added_snr[k + 1] : k \in C18_Matched}), 1>>
C18_Off(k) == Abs(fn_in.added_snr[k + 1] * C18_Ref[2] - C18_Ref[1])
\* C18: for midpoints sorted ascending, no two returned eclipses have the same
\* nearest predicted time, every returned eclipse is nearer than half its width
\* to its nearest predicted time, and of the eclipses competing for one
\* predicted time the returned one has the SNR closest to the reference SNR
C18_OnePerSlot ==
    (fn_pc = "done" /\ fn_in.function = "extract_pattern" /\ fn_out.error = "none") =>
        /\ \A j, k \in fn_out.indices : C18_Slot(j) = C18_Slot(k) => j = k
        /\ \A k \in fn_out.indices :
              /\ Abs(PatAt(C18_Pattern, C18_Slot(k)) - fn_in.ecl_mid[k + 1])
                    = C18_Least(fn_in.ecl_mid[k + 1])
              /\ 2 * C18_Least(fn_in.ecl_mid[k + 1]) < fn_in.widths[k + 1]
        /\ \A k \in C18_Matched : \E j \in fn_out.indices :
              /\ C18_Slot(j) = C18_Slot(k)
              /\ C18_Off(j) <= C18_Off(k)
\* two eclipses competed for one predicted time, a third one gave the reference
\* SNR, and the later of the two was kept
C18_RivalsResolved ==
    /\ fn_pc = "done"
    /\ fn_in.function = "extract_pattern"
    /\ fn_out.error = "none"
    /\ C18_Alone # {}
    /\ \E j, k \in C18_Matched :
          /\ j < k
          /\ C18_Slot(j) = C18_Slot(k)
          /\ C18_Off(k) < C18_Off(j)
          /\ k \in fn_out.indices
          /\ j \notin fn_out.indices

---------------------------------------------------------------------------
(* Round trip of the ephemeris of estimate_period through extract_pattern *)

\* the eclipses of the call sorted by midpoint, and the returned flags in that order
C19_Sorter == ArgSort(ep_in.ecl_mid)
C19_Primaries == {k \in 0..(Len(ep_in.ecl_mid) - 1) : ep_out.flags_pst[C19_Sorter[k + 1] + 1] = 1}
\* the eclipses extract_pattern finds at the returned t_zero and period, over
\* the time domain estimate_period used
C19_Extracted ==
    extract_pattern(Permute(ep_in.ecl_mid, C19_Sorter), Permute(ep_in.widths, C19_Sorter),
                    Permute(ep_in.added_snr, C19_Sorter), ep_out.t_zero, ep_out.period,
                    ep_w.domain)
\* C19: whenever estimate_period returns a period other than -1, extract_pattern
\* at the returned t_zero and period over the same eclipses returns at least
\* every eclipse flagged primary (1)
C19_RoundTrip ==
    (Returned /\ ep_out.period # Sentinel) => C19_Primaries \subseteq C19_Extracted

---------------------------------------------------------------------------
(* eclipse_score_attr: the five attributes of the score, in thousandths *)

\* one, in thousandths
Milli == 10 * 100
\* the value -0.1 of an attribute that is not computed
NotComputed == -(Milli \div 10)

\* arctan(x) * 2 / pi for x in hundredths, 0 <= x <= 1, as x / (1 + 0.28 x^2)
AtanUnit(xh) == (6366000 * xh) \div (Milli * Milli + 28 * xh * xh)
\* np.arctan(x) * 2 / np.pi for any x in hundredths: odd, and the complement
\* of the value at 1 / x above 1
ArctanNorm(xh) ==
    IF xh < -100 THEN -(Milli - AtanUnit(10000 \div (-xh)))
    ELSE IF xh < 0 THEN -AtanUnit(-xh)
    ELSE IF xh <= 100 THEN AtanUnit(xh)
    ELSE Milli - AtanUnit(10000 \div xh)

\* np.mean of integers, in thousandths
MeanMilli(s) == (Milli * SumSeq(s)) \div Len(s)

\* the eclipses (from 0) with a flag out of a set
Flagged(flags, which) == {k \in 0..(Len(flags) - 1) : flags[k + 1] \in which}

\* the number of points of np.arange(t_0, stop, period)[from:] (period > 0) and
\* of np.arange(t_0, stop, -period) that lie outside the gaps of the times
Covered(times, gaps, x) ==
    \A i \in gaps : (i + 1) \in gaps => (x < times[i + 1] \/ x > times[i + 2])
CountUp(times, gaps, t_0, period, from) ==
    LET stop == times[Len(times)]
        len  == IF stop > t_0 THEN CeilDiv(stop - t_0, period) ELSE 0
    IN  Cardinality({k \in from..(len - 1) : Covered(times, gaps, t_0 + k * period)})
CountDown(times, gaps, t_0, period) ==
    LET len == IF t_0 > times[1] THEN CeilDiv(t_0 - times[1], period) ELSE 0
    IN  Cardinality({k \in 0..(len - 1) : Covered(times, gaps, t_0 - k * period)})
\* found_ratio, in thousandths
found_ratio(times, ecl_mid, flags_pst, period, n_found) ==
    LET prim  == Flagged(flags_pst, {1})
        sec   == Flagged(flags_pst, {2})
        gaps  == mark_gaps(times)[1] \cup {0, Len(times) - 1}
        n_possible ==
            IF period = Sentinel THEN 1
            ELSE IF period > 0
            THEN (IF prim = {} THEN 0
                  ELSE CountDown(times, gaps, ecl_mid[SetMin(prim) + 1], period)
                       + CountUp(times, gaps, ecl_mid[SetMin(prim) + 1], period, 1))
                 + (IF sec = {} THEN 0
                    ELSE CountDown(times, gaps, ecl_mid[SetMin(sec) + 1], period)
                         + CountUp(times, gaps, ecl_mid[SetMin(sec) + 1], period, 0))
            ELSE 1
        ratio == IF n_possible # 0 THEN (Milli * n_found) \div n_possible ELSE Milli
    IN  (IF ratio > Milli THEN (Milli * Milli) \div ratio ELSE ratio) \div 2 + Milli \div 2

\* the heights and widths of the two sides of eclipse k (from 0)
HeightRight(times, signal, ecl_indices, k) ==
    signal[ecl_indices[k + 1][1] + 1] - signal[ecl_indices[k + 1][2] + 1]
HeightLeft(times, signal, ecl_indices, k) ==
    signal[ecl_indices[k + 1][4] + 1] - signal[ecl_indices[k + 1][3] + 1]
WidthRight(times, signal, ecl_indices, k) ==
    times[ecl_indices[k + 1][2] + 1] - times[ecl_indices[k + 1][1] + 1]
WidthLeft(times, signal, ecl_indices, k) ==
    times[ecl_indices[k + 1][4] + 1] - times[ecl_indices[k + 1][3] + 1]

\* the slope of a half eclipse and the smaller slope of a full one, in thousandths
SlopeHalf(times, signal, ecl_indices, k) ==
    (Milli * (HeightRight(times, signal, ecl_indices, k) + HeightLeft(times, signal, ecl_indices, k)))
        \div (WidthRight(times, signal, ecl_indices, k) + WidthLeft(times, signal, ecl_indices, k))
SlopeRight(times, signal, ecl_indices, k) ==
    (Milli * HeightRight(times, signal, ecl_indices, k)) \div WidthRight(times, signal, ecl_indices, k)
SlopeLeft(times, signal, ecl_indices, k) ==
    (Milli * HeightLeft(times, signal, ecl_indices, k)) \div WidthLeft(times, signal, ecl_indices, k)
SlopeFull(times, signal, ecl_indices, k) ==
    Min2(SlopeRight(times, signal, ecl_indices, k), SlopeLeft(times, signal, ecl_indices, k))

\* the eclipses of a set (from 0) in ascending order, from 1
Members(group) == [i \in 1..Cardinality(group) |-> Ascending(group)[i]]

\* normalised_slope, in thousandths: the mean slope of the eclipses of prim_sec
\* (the full ones if there are any) over the median absolute derivative
\* outside the eclipses; the median is not zero in the light curves explored
normalised_slope(times, signal_s, deriv_1r, ecl_indices, ecl_mask, prim_sec, m_full) ==
    LET mask   == prim_sec \cap m_full
        total  == IF prim_sec = {} THEN 0
                  ELSE IF mask = {} THEN SumSeq([i \in 1..Cardinality(prim_sec) |->
                                  SlopeHalf(times, signal_s, ecl_indices, Members(prim_sec)[i])])
                  ELSE SumSeq([i \in 1..Cardinality(mask) |->
                                  SlopeFull(times, signal_s, ecl_indices, Members(mask)[i])])
        count  == IF prim_sec = {} THEN 1
                  ELSE IF mask = {} THEN Cardinality(prim_sec) ELSE Cardinality(mask)
        norm_2 == Median2(Pick([i \in DOMAIN deriv_1r |-> Abs(deriv_1r[i])],
                               {i - 1 : i \in {j \in DOMAIN ecl_mask : ecl_mask[j]}}))
    IN  (2 * Milli * (total \div count)) \div norm_2

\* the relative differences of the two sides of eclipse k in height and in slope
HeightAsym(times, signal, ecl_indices, k) ==
    (2 * Milli * Abs(HeightRight(times, signal, ecl_indices, k) - HeightLeft(times, signal, ecl_indices, k)))
        \div (HeightRight(times, signal, ecl_indices, k) + HeightLeft(times, signal, ecl_indices, k))
SlopeAsym(times, signal, ecl_indices, k) ==
    (2 * Milli * Abs(SlopeRight(times, signal, ecl_indices, k) - SlopeLeft(times, signal, ecl_indices, k)))
        \div (SlopeRight(times, signal, ecl_indices, k) + SlopeLeft(times, signal, ecl_indices, k))

\* x / (x + 0.5) turned around: 0.5 / (0.5 + x), after the values below 0.5
\* are drawn out by 2 * (1 - x)
HalfOver(x) ==
    (Milli * (Milli \div 2))
        \div (Milli \div 2 + (IF x < Milli \div 2 THEN (x * 2 * (Milli - x)) \div Milli ELSE x))

\* normalised_symmetry over the eclipses of a set, in thousandths
normalised_symmetry(times, signal, ecl_indices, group) ==
    IF group = {} THEN HalfOver(Milli)
    ELSE HalfOver((10 * (SumSeq([i \in 1..Cardinality(group) |->
                              SlopeAsym(times, signal, ecl_indices, Members(group)[i])])
                          \div Cardinality(group))
                      * (SumSeq([i \in 1..Cardinality(group) |->
                              HeightAsym(times, signal, ecl_indices, Members(group)[i])])
                          \div Cardinality(group)))
                  \div (7 * Milli))

\* np.sum((np.abs(x - avg) / avg)**2) over the eclipses of a set, in thousandths
DevOf(x, group) ==
    LET n == Cardinality(group)
        s == SumSeq(Pick(x, group))
    IN  (Milli * SumSeq([i \in 1..n |-> (n * Pick(x, group)[i] - s) * (n * Pick(x, group)[i] - s)]))
            \div (s * s)

\* normalised_equality, in thousandths
normalised_equality(added_snr, depths, widths, flags_pst) ==
    LET prim  == Flagged(flags_pst, {1})
        sec   == IF Cardinality(Flagged(flags_pst, {2})) > 1 THEN Flagged(flags_pst, {2}) ELSE {}
        n     == Cardinality(prim) + Cardinality(sec) - 1
        dev_a == (DevOf(added_snr, prim) + (IF sec = {} THEN 0 ELSE DevOf(added_snr, sec))) \div n
        dev_d == (DevOf(depths, prim) + (IF sec = {} THEN 0 ELSE DevOf(depths, sec))) \div n
        dev_w == (DevOf(widths, prim) + (IF sec = {} THEN 0 ELSE DevOf(widths, sec))) \div n
    IN  IF Cardinality(prim) > 1
        THEN HalfOver((((dev_a * dev_d) \div Milli) * dev_w) \div 100)
        ELSE HalfOver(Milli)

\* the rows of the eclipses of a set as <<first, last>> pairs, for mask_eclipses
EdgePairs(ecl_indices, group) ==
    [i \in 1..Cardinality(group) |->
        <<Pick(ecl_indices, group)[i][1], Pick(ecl_indices, group)[i][4]>>]

\* whether some kind of eclipse is on average wider than 0.8 period
WideEclipses(widths, prim, sec, period) ==
    /\ prim # {}
    /\ \/ 10 * MeanMilli(Pick(widths, prim)) > 8 * Milli * period
       \/ sec # {} /\ 10 * MeanMilli(Pick(widths, sec)) > 8 * Milli * period

\* the score of the branch with primaries or secondaries, in thousandths
ScoreFormula(a, halved) ==
    ((a[1] * a[3] * Isqrt(a[2] * a[2] + a[3] * a[3] + a[4] * a[4] + a[5] * a[5]))
        \div (2 * Milli * Milli)) \div (IF halved THEN 2 ELSE 1)

\* the attributes where some eclipse is a primary or a secondary
AttrClassified(c, prim, sec, m_full, ecl_mask) ==
    <<ArctanNorm(((IF prim # {} THEN MeanMilli(Pick(c.added_snr, prim)) ELSE 0)
                  + (IF sec # {} THEN MeanMilli(Pick(c.added_snr, sec)) ELSE 0)) \div 400),
      found_ratio(c.times, c.ecl_mid, c.flags_pst, c.period, Cardinality(prim \cup sec)),
      ArctanNorm(normalised_slope(c.times, c.signal_s, c.deriv_1r, c.ecl_indices, ecl_mask,
                                  prim, m_full) \div 25),
      normalised_symmetry(c.times, c.signal_s, c.ecl_indices, m_full \cap (prim \cup sec)),
      normalised_equality(c.added_snr, c.depths, c.widths, c.flags_pst)>>

\* the attributes where no eclipse is a primary or a secondary: a single
\* eclipse is still possible, three attributes are not computed
AttrUnclassified(c, m_full, ecl_mask) ==
    <<ArctanNorm((100 * SetMax(Range(c.added_snr))) \div 600),
      NotComputed,
      ArctanNorm(normalised_slope(c.times, c.signal_s, c.deriv_1r, c.ecl_indices, ecl_mask,
                                  0..(Len(c.ecl_mid) - 1), m_full) \div 25),
      NotComputed,
      NotComputed>>

eclipse_score_attr(c) ==
    IF Len(c.ecl_mid) # 0
    THEN The({ IF prim \cup sec # {}
               THEN The({ [score   |-> ScoreFormula(attr, (m_full \cap (prim \cup sec) = {})
                                                          \/ WideEclipses(c.widths, prim, sec, c.period)),
                           attr    |-> attr,
                           penalty |-> IF (m_full \cap (prim \cup sec) = {})
                                          \/ WideEclipses(c.widths, prim, sec, c.period)
                                       THEN Milli \div 2 ELSE Milli]
                          : attr \in {AttrClassified(c, prim, sec, m_full, ecl_mask)} })
               ELSE The({ [score   |-> ((attr[1] * attr[3]) \div Milli) \div (IF m_full = {} THEN 2 ELSE 1),
                           attr    |-> attr,
                           penalty |-> IF m_full = {} THEN Milli \div 2 ELSE Milli]
                          : attr \in {AttrUnclassified(c, m_full, ecl_mask)} })
               : prim \in {Flagged(c.flags_pst, {1})}, sec \in {Flagged(c.flags_pst, {2})},
                 m_full \in {Flagged(c.flags_lrf, {0})},
                 ecl_mask \in {mask_eclipses(c.times,
                                  EdgePairs(c.ecl_indices, Flagged(c.flags_pst, {1, 2})))} })
    ELSE [score |-> -Milli,
          attr  |-> <<NotComputed, NotComputed, NotComputed, NotComputed, NotComputed>>,
          penalty |-> 0]

\* the largest number of eclipses in a call
MaxAttrEcl == 3

\* a light curve of 16 samples with a gap after the eighth: two full eclipses
\* (the second one asymmetric) and two half eclipses, in the order of time
AttrTimes == [k \in 1..16 |-> IF k <= 8 THEN 2 * (k - 1) ELSE 2 * (k - 1) + 12]
AttrSignal == <<21, 20, 12, 12, 20, 21, 20, 21, 20, 14, 13, 21, 20, 21, 15, 15>>
\* the difference quotient of the signal, the last one repeated, in thousandths
AttrDeriv ==
    [k \in 1..16 |->
        IF k < 16 THEN (Milli * (AttrSignal[k + 1] - AttrSignal[k])) \div (AttrTimes[k + 1] - AttrTimes[k])
        ELSE (Milli * (AttrSignal[16] - AttrSignal[15])) \div (AttrTimes[16] - AttrTimes[15])]
\* an eclipse: <<ecl_indices, ecl_mid, width, depth, flags_lrf>>
AttrEclipses == << << <<1, 2, 3, 4>>, 5, 6, 8, 0 >>,
                   << <<6, 6, 6, 7>>, 13, 2, 1, 2 >>,
                   << <<8, 9, 10, 11>>, 31, 6, 7, 0 >>,
                   << <<13, 14, 14, 14>>, 39, 2, 6, 1 >> >>
AttrSnr == {20, 60}
AttrPeriods == {10, 26}

\* the call with the eclipses of sel (an ascending sequence of list positions)
AttrCallOf(sel, added_snr, flags_pst, period) ==
    [function    |-> "eclipse_score_attr",
     times       |-> AttrTimes,
     signal_s    |-> AttrSignal,
     deriv_1r    |-> AttrDeriv,
     period      |-> period,
     ecl_indices |-> [i \in DOMAIN sel |-> AttrEclipses[sel[i]][1]],
     ecl_mid     |-> [i \in DOMAIN sel |-> AttrEclipses[sel[i]][2]],
     added_snr   |-> added_snr,
     widths      |-> [i \in DOMAIN sel |-> AttrEclipses[sel[i]][3]],
     depths      |-> [i \in DOMAIN sel |-> AttrEclipses[sel[i]][4]],
     flags_lrf   |-> [i \in DOMAIN sel |-> AttrEclipses[sel[i]][5]],
     flags_pst   |-> flags_pst]

\* estimate_period returns a period together with at least one primary, and
\* the period -1 with no primary and no secondary
InitAttr ==
    /\ fn_pc = "call"
    /\ \E S \in {T \in SUBSET (1..4) : Cardinality(T) \in 1..MaxAttrEcl} :
       \E added_snr \in [1..Cardinality(S) -> AttrSnr] :
       \E flags_pst \in [1..Cardinality(S) -> {1, 2, 3}] :
       \E period \in AttrPeriods \cup {Sentinel} :
          /\ (period = Sentinel) = (Flagged(flags_pst, {1}) = {})
          /\ period = Sentinel => Flagged(flags_pst, {2}) = {}
          /\ fn_in = AttrCallOf(Ascending(S), added_snr, flags_pst, period)
    /\ fn_out = NoRec
    /\ EpIdle /\ AsIdle /\ FeIdle

AttrCall ==
    /\ fn_pc = "call"
    /\ fn_in.function = "eclipse_score_attr"
    /\ fn_out' = eclipse_score_attr(fn_in)
    /\ fn_pc' = "done"
    /\ UNCHANGED <<fn_in, ep_vars, as_vars, fe_vars>>

NextAttr == AttrCall

SpecAttr == InitAttr /\ [][NextAttr]_vars

C20_Returned == fn_pc = "done" /\ fn_in.function = "eclipse_score_attr"
C20_InUnit(x) == 0 <= x /\ x <= Milli
\* C20: whenever at least one eclipse exists, each of the five attributes
\* attr_0 .. attr_4 returned by eclipse_score_attr lies in [0, 1], with
\* primaries or secondaries and with unclassified eclipses only
C20_AttributesInUnit ==
    (C20_Returned /\ Len(fn_in.ecl_mid) >= 1) =>
        \A i \in 1..5 : C20_InUnit(fn_out.attr[i])
\* with a primary or a secondary among the eclipses the five attributes lie in [0, 1]
C20_ClassifiedInUnit ==
    (C20_Returned /\ Flagged(fn_in.flags_pst, {1, 2}) # {}) =>
        \A i \in 1..5 : C20_InUnit(fn_out.attr[i])
\* with unclassified eclipses only, attr_0 and attr_2 lie in [0, 1] and attr_1,
\* attr_3 and attr_4 are -0.1
C20_UnclassifiedNotComputed ==
    (C20_Returned /\ Len(fn_in.ecl_mid) >= 1 /\ Flagged(fn_in.flags_pst, {1, 2}) = {}) =>
        /\ C20_InUnit(fn_out.attr[1])
        /\ C20_InUnit(fn_out.attr[3])
        /\ fn_out.attr[2] = NotComputed
        /\ fn_out.attr[4] = NotComputed
        /\ fn_out.attr[5] = NotComputed
\* both branches returned attributes
C20_ClassifiedReturned ==
    C20_Returned /\ Cardinality(Flagged(fn_in.flags_pst, {1})) > 1 /\ Flagged(fn_in.flags_pst, {2}) # {}
C20_UnclassifiedReturned ==
    C20_Returned /\ Flagged(fn_in.flags_pst, {1, 2}) = {} /\ fn_out.attr[1] > 0 /\ fn_out.attr[3] > 0

---------------------------------------------------------------------------
(* find_best_n: the trial of every kernel width and the choice of the best *)

\* the largest max_n of a call
MaxN == 7

\* np.arange(min_n, max_n + max_n % 2)
KernelRange(min_n, max_n) ==
    [i \in 1..Max2(0, max_n + (max_n % 2) - min_n) |-> min_n + i - 1]

\* what the derivative pipeline, the peak detection and the assembly give for
\* one width: the runs test in hundredths, the sine flag, and (zero without
\* eclipses) the mean slope, the largest SNR, the mean depth and the
\* smoothness in thousandths
TrialResults ==
    { [deviation |-> -250, sine_like |-> FALSE, slope |-> 0, snr |-> 0, depth |-> 0, smoothness |-> 0],
      [deviation |-> 40, sine_like |-> TRUE, slope |-> 1, snr |-> 4, depth |-> 4, smoothness |-> 500],
      [deviation |-> -104, sine_like |-> TRUE, slope |-> 2, snr |-> 100, depth |-> 4, smoothness |-> 900],
      [deviation |-> 300, sine_like |-> FALSE, slope |-> 3, snr |-> 144, depth |-> 4, smoothness |-> 900],
      [deviation |-> 90, sine_like |-> FALSE, slope |-> 3, snr |-> 144, depth |-> 9, smoothness |-> 1000] }

\* deviation[0] = 0, np.abs, and the values below 1 set to 1, in hundredths
Deviation(trials) ==
    [i \in DOMAIN trials |-> IF i = 1 THEN 100 ELSE Max2(100, Abs(trials[i].deviation))]

\* slope_measure * snr_measure**(1/2) * depth_measure**(1/2) / deviation, in hundredths
Optimise(trials) ==
    [i \in DOMAIN trials |->
        (10000 * trials[i].slope * Isqrt(trials[i].snr) * Isqrt(trials[i].depth))
            \div Deviation(trials)[i]]

\* the first width (from 0) after which the signs are no longer sine-like, if
\* more than two widths in a row were; otherwise the last width
SineCut(trials) ==
    LET sine     == [i \in DOMAIN trials |-> IF trials[i].sine_like THEN 1 ELSE 0]
        first_sl == ArgMax(sine)
        end_sl   == ArgMin(SubSeq(sine, first_sl + 1, Len(sine)))
    IN  IF sine[first_sl + 1] = 1 /\ end_sl > 2 THEN first_sl + end_sl ELSE Len(trials) - 1

\* the objective after the cuts for sine-like signals, for quiet residuals
\* and for too much smoothing
FinalOptimise(trials) ==
    LET cut     == [i \in DOMAIN trials |->
                       IF i - 1 > SineCut(trials) THEN 0 ELSE Optimise(trials)[i]]
        quiet   == \A i \in DOMAIN trials : Deviation(trials)[i] < 105
        strong  == \E i \in DOMAIN trials : trials[i].snr >= 100 /\ cut[i] > 0
    IN  [i \in DOMAIN trials |->
            IF quiet THEN (IF strong /\ trials[i].snr < 100 THEN 0 ELSE cut[i])
            ELSE (IF trials[i].smoothness > 999 THEN 0 ELSE cut[i])]

InitBestN ==
    /\ fn_pc = "call"
    /\ \E min_n \in {1, 3, 8} : \E max_n \in 2..MaxN :
          fn_in = [function |-> "find_best_n", min_n |-> min_n, max_n |-> max_n]
    /\ fn_out = NoRec
    /\ EpIdle /\ AsIdle /\ FeIdle

\* the range of widths and the arrays of the measures
BestNStart ==
    /\ fn_pc = "call"
    /\ fn_in.function = "find_best_n"
    /\ fn_out' = [n_range |-> KernelRange(fn_in.min_n, fn_in.max_n), trials |-> <<>>, best_n |-> 0]
    /\ fn_pc' = "trials"
    /\ UNCHANGED <<fn_in, ep_vars, as_vars, fe_vars>>

\* one pass of the loop: the next width is tried
BestNTrial ==
    /\ fn_pc = "trials"
    /\ fn_in.function = "find_best_n"
    /\ Len(fn_out.trials) < Len(fn_out.n_range)
    /\ \E result \in TrialResults :
          fn_out' = [fn_out EXCEPT !.trials = Append(@, result)]
    /\ UNCHANGED <<fn_pc, fn_in, ep_vars, as_vars, fe_vars>>

\* after the loop: deviation[0] = 0 is an IndexError for an empty range,
\* otherwise the width at the peak of the objective is returned
BestNSelect ==
    /\ fn_pc = "trials"
    /\ fn_in.function = "find_best_n"
    /\ Len(fn_out.trials) = Len(fn_out.n_range)
    /\ IF Len(fn_out.n_range) = 0
       THEN fn_pc' = "raised" /\ UNCHANGED fn_out
       ELSE /\ fn_pc' = "done"
            /\ \E optimise \in {FinalOptimise(fn_out.trials)} :
                  fn_out' = [fn_out EXCEPT !.best_n = fn_out.n_range[ArgMax(optimise) + 1]]
    /\ UNCHANGED <<fn_in, ep_vars, as_vars, fe_vars>>

NextBestN == BestNStart \/ BestNTrial \/ BestNSelect

SpecBestN == InitBestN /\ [][NextBestN]_vars

C21_Returned == fn_pc = "done" /\ fn_in.function = "find_best_n"
\* C21: find_best_n tries every integer width n in [min_n, max_n], both ends
\* included for even and for odd max_n, and returns the width at the first
\* maximum of the objective, which lies in [min_n, max_n]
C21_EveryWidthTried ==
    C21_Returned =>
        /\ Range(fn_out.n_range) = fn_in.min_n..fn_in.max_n
        /\ Len(fn_out.trials) = Len(fn_out.n_range)
        /\ fn_out.best_n = fn_out.n_range[ArgMax(FinalOptimise(fn_out.trials)) + 1]
        /\ fn_out.best_n \in fn_in.min_n..fn_in.max_n
\* the widths tried are min_n up to max_n for odd max_n and up to max_n - 1
\* for even max_n, and the returned width is one of them
C21_WidthsTried ==
    C21_Returned =>
        /\ Range(fn_out.n_range) = fn_in.min_n..(fn_in.max_n - 1 + (fn_in.max_n % 2))
        /\ Len(fn_out.trials) = Len(fn_out.n_range)
        /\ fn_out.best_n \in Range(fn_out.n_range)
        /\ \A i \in DOMAIN fn_out.trials :
              FinalOptimise(fn_out.trials)[i]
                 <= FinalOptimise(fn_out.trials)[fn_out.best_n - fn_in.min_n + 1]
\* a width other than the first one of an odd range was returned
C21_LaterWidthReturned ==
    C21_Returned /\ fn_in.max_n % 2 = 1 /\ fn_out.best_n > fn_in.min_n

---------------------------------------------------------------------------
(* measure_eclipses: midpoints, widths, depths and ratios as <<numerator, denominator>> *)

\* the measurement of eclipse k (from 1) with the flag lrf
MeasureOne(times, signal, ecl, lrf) ==
    [ecl_mid |-> IF lrf = 0
                 THEN <<times[ecl[1] + 1] + times[ecl[4] + 1] + times[ecl[2] + 1] + times[ecl[3] + 1], 4>>
                 ELSE IF lrf = 1 THEN <<times[ecl[2] + 1], 1>>
                 ELSE IF lrf = 2 THEN <<times[ecl[3] + 1], 1>>
                 ELSE <<0, 1>>,
     width   |-> IF lrf = 0 THEN times[ecl[4] + 1] - times[ecl[1] + 1]
                 ELSE IF lrf = 1 THEN times[ecl[2] + 1] - times[ecl[1] + 1]
                 ELSE IF lrf = 2 THEN times[ecl[4] + 1] - times[ecl[3] + 1]
                 ELSE 0,
     depth   |-> <<(signal[ecl[1] + 1] - signal[ecl[2] + 1]) + (signal[ecl[4] + 1] - signal[ecl[3] + 1]),
                   IF lrf = 0 THEN 2 ELSE IF lrf \in {1, 2} THEN 1 ELSE 0>>,
     ratio   |-> IF lrf = 0
                 THEN <<times[ecl[3] + 1] - times[ecl[2] + 1], times[ecl[4] + 1] - times[ecl[1] + 1]>>
                 ELSE <<0, 1>>]

measure_eclipses(times, signal, ecl_indices, flags_lrf) ==
    [ecl_mid |-> [k \in DOMAIN flags_lrf |-> MeasureOne(times, signal, ecl_indices[k], flags_lrf[k]).ecl_mid],
     widths  |-> [k \in DOMAIN flags_lrf |-> MeasureOne(times, signal, ecl_indices[k], flags_lrf[k]).width],
     depths  |-> [k \in DOMAIN flags_lrf |-> MeasureOne(times, signal, ecl_indices[k], flags_lrf[k]).depth],
     ratios  |-> [k \in DOMAIN flags_lrf |-> MeasureOne(times, signal, ecl_indices[k], flags_lrf[k]).ratio]]

\* the time steps of the light curves measured
MeasureSteps == {1, 2, 3, 5}

InitMeasure ==
    /\ fn_pc = "call"
    /\ \E S \in SUBSET (1..4) : \E step \in MeasureSteps : \E lift \in {0, 7} :
          fn_in = [function    |-> "measure_eclipses",
                   times       |-> [k \in DOMAIN AttrTimes |-> step * AttrTimes[k]],
                   signal      |-> [k \in DOMAIN AttrSignal |-> AttrSignal[k] + lift],
                   ecl_indices |-> [i \in 1..Cardinality(S) |-> AttrEclipses[Ascending(S)[i]][1]],
                   flags_lrf   |-> [i \in 1..Cardinality(S) |-> AttrEclipses[Ascending(S)[i]][5]]]
    /\ fn_out = NoRec
    /\ EpIdle /\ AsIdle /\ FeIdle

MeasureCall ==
    /\ fn_pc = "call"
    /\ fn_in.function = "measure_eclipses"
    /\ fn_out' = measure_eclipses(fn_in.times, fn_in.signal, fn_in.ecl_indices, fn_in.flags_lrf)
    /\ fn_pc' = "done"
    /\ UNCHANGED <<fn_in, ep_vars, as_vars, fe_vars>>

NextMeasure == MeasureCall

SpecMeasure == InitMeasure /\ [][NextMeasure]_vars

C22_Returned == fn_pc = "done" /\ fn_in.function = "measure_eclipses"
\* the times of the outer and of the inner edge of the half eclipse k
C22_Outer(k) ==
    fn_in.times[fn_in.ecl_indices[k][IF fn_in.flags_lrf[k] = 1 THEN 1 ELSE 4] + 1]
C22_Inner(k) ==
    fn_in.times[fn_in.ecl_indices[k][IF fn_in.flags_lrf[k] = 1 THEN 2 ELSE 3] + 1]
\* C22: for a half eclipse measure_eclipses reports the time of the inner edge
\* as midpoint and a width of twice the time between its outer and inner edge
C22_HalfWidthDoubled ==
    C22_Returned =>
        \A k \in DOMAIN fn_in.flags_lrf :
            fn_in.flags_lrf[k] \in {1, 2} =>
                /\ fn_out.ecl_mid[k] = <<C22_Inner(k), 1>>
                /\ fn_out.widths[k] = 2 * Abs(C22_Outer(k) - C22_Inner(k))
\* for a half eclipse the midpoint is the time of the inner edge, the width the
\* time between its outer and inner edge, and the depth that of its one side
C22_HalfWidthSingle ==
    C22_Returned =>
        \A k \in DOMAIN fn_in.flags_lrf :
            fn_in.flags_lrf[k] \in {1, 2} =>
                /\ fn_out.ecl_mid[k] = <<C22_Inner(k), 1>>
                /\ fn_out.widths[k] = Abs(C22_Outer(k) - C22_Inner(k))
                /\ fn_out.widths[k] > 0
                /\ fn_out.depths[k][2] = 1
\* a left and a right half eclipse were measured
C22_HalvesMeasured ==
    C22_Returned /\ \E j, k \in DOMAIN fn_in.flags_lrf : fn_in.flags_lrf[j] = 1 /\ fn_in.flags_lrf[k] = 2

---------------------------------------------------------------------------
(* runs_test: the number of runs against the number expected, as exact fractions *)

\* the longest signal tested
MaxRuns == 5

\* (signal > 0).astype(int)
SignalAbove(signal) == [k \in DOMAIN signal |-> IF signal[k] > 0 THEN 1 ELSE 0]
\* n_a, n_b: the numbers above and below zero, each at least one
NumberAbove(signal) == Max2(1, SumSeq(SignalAbove(signal)))
NumberBelow(signal) == Max2(1, Len(signal) - NumberAbove(signal))
\* r: the number of runs
Runs(signal) ==
    SumSeq([k \in 1..(Len(signal) - 1) |-> Abs(SignalAbove(signal)[k + 1] - SignalAbove(signal)[k])]) + 1
\* r - r_exp as <<numerator, denominator>>, r_exp = 2 * n_a * n_b / n_tot + 1
RunsExcess(signal) ==
    <<Runs(signal) * Len(signal) - 2 * NumberAbove(signal) * NumberBelow(signal) - Len(signal), Len(signal)>>
\* s_r as <<numerator, denominator>>
RunsSr(signal) ==
    <<2 * NumberAbove(signal) * NumberBelow(signal)
        * (2 * NumberAbove(signal) * NumberBelow(signal) - Len(signal)),
      Len(signal) * Len(signal) * (Len(signal) - 1)>>
\* a division by zero in r_exp, in s_r or in z
RunsRaises(signal) ==
    \/ Len(signal) = 0
    \/ RunsSr(signal)[2] = 0
    \/ RunsSr(signal)[1] = 0
\* z = (r - r_exp) / s_r as <<numerator, denominator>>, both divided by n_tot
runs_test(signal) ==
    <<RunsExcess(signal)[1] * (RunsSr(signal)[2] \div Len(signal)), RunsSr(signal)[1]>>

InitRuns ==
    /\ fn_pc = "call"
    /\ \E n \in 1..MaxRuns : \E signal \in [1..n -> {-1, 0, 1}] :
          fn_in = [function |-> "runs_test", signal |-> signal]
    /\ fn_out = NoRec
    /\ EpIdle /\ AsIdle /\ FeIdle

RunsCall ==
    /\ fn_pc = "call"
    /\ fn_in.function = "runs_test"
    /\ ~RunsRaises(fn_in.signal)
    /\ fn_out' = [z |-> runs_test(fn_in.signal)]
    /\ fn_pc' = "done"
    /\ UNCHANGED <<fn_in, ep_vars, as_vars, fe_vars>>

RunsZeroDivision ==
    /\ fn_pc = "call"
    /\ fn_in.function = "runs_test"
    /\ RunsRaises(fn_in.signal)
    /\ fn_out' = [error |-> "ZeroDivisionError"]
    /\ fn_pc' = "raised"
    /\ UNCHANGED <<fn_in, ep_vars, as_vars, fe_vars>>

NextRuns == RunsCall \/ RunsZeroDivision

SpecRuns == InitRuns /\ [][NextRuns]_vars

C23_Returned == fn_pc = "done" /\ fn_in.function = "runs_test"
\* the numbers of samples above zero and not above zero, as counted
C23_Above == Cardinality({k \in DOMAIN fn_in.signal : fn_in.signal[k] > 0})
C23_Below == Len(fn_in.signal) - C23_Above
\* the number of runs: one more than the places where the side changes
C23_Runs ==
    1 + Cardinality({k \in 1..(Len(fn_in.signal) - 1) : (fn_in.signal[k] > 0) # (fn_in.signal[k + 1] > 0)})
\* observed minus expected runs, times n_tot
C23_Excess == C23_Runs * Len(fn_in.signal) - 2 * C23_Above * C23_Below - Len(fn_in.signal)
\* the variance of the number of runs, times n_tot^2 * (n_tot - 1)
C23_Variance == 2 * C23_Above * C23_Below * (2 * C23_Above * C23_Below - Len(fn_in.signal))
\* C23: runs_test returns the observed minus the expected number of runs divided
\* by the standard deviation of the number of runs: z has the sign of the
\* difference and z^2 * variance = difference^2 (both sides times n_tot^2)
C23_InSigma ==
    (C23_Returned /\ C23_Above > 0 /\ C23_Below > 0) =>
        /\ fn_out.z[1] * fn_out.z[2] * C23_Excess >= 0
        /\ fn_out.z[1] * fn_out.z[1] * C23_Variance
              = C23_Excess * C23_Excess * fn_out.z[2] * fn_out.z[2] * (Len(fn_in.signal) - 1)
\* what is returned is the difference divided by the variance of the number of runs
C23_InVariance ==
    (C23_Returned /\ C23_Above > 0 /\ C23_Below > 0) =>
        fn_out.z[1] * C23_Variance
            = C23_Excess * Len(fn_in.signal) * (Len(fn_in.signal) - 1) * fn_out.z[2]
\* a series with samples on both sides and more or fewer runs than expected was tested
C23_UnexpectedRuns ==
    C23_Returned /\ C23_Above > 0 /\ C23_Below > 0 /\ C23_Excess # 0

---------------------------------------------------------------------------
(* curve_walker: the walkers step along the curve together until none may step *)

\* the longest curve walked and the largest look_ahead
MaxWalk == 5
MaxLook == 3

WalkModes == {"up", "down", "up_to_zero", "down_to_zero"}
\* 'up' in mode, 'down' in mode, 'zero' in mode
UpIn(mode) == mode \in {"up", "up_to_zero"}
DownIn(mode) == mode \in {"down", "down_to_zero"}
ZeroIn(mode) == mode \in {"up_to_zero", "down_to_zero"}
\* slope_sign = -slope_sign if 'down' in mode
WalkSign(mode, slope_sign) == IF DownIn(mode) THEN -slope_sign ELSE slope_sign
\* a boolean as the factor of a step
AsInt(b) == IF b THEN 1 ELSE 0

check_edges(signal, index) == index > 0 /\ index < Len(signal) - 1

\* the comparisons of check_condition without their strictness
ConditionOrEqual(mode, prev_s, cur_s) ==
    /\ IF UpIn(mode) THEN prev_s <= cur_s
       ELSE IF DownIn(mode) THEN prev_s >= cur_s
       ELSE FALSE
    /\ ZeroIn(mode) => Abs(prev_s) >= Abs(cur_s)

check_condition(mode, prev_s, cur_s) ==
    /\ IF UpIn(mode) THEN prev_s < cur_s
       ELSE IF DownIn(mode) THEN prev_s > cur_s
       ELSE FALSE
    /\ ZeroIn(mode) => Abs(prev_s) > Abs(cur_s)

\* the candidate index of a walker at prev_i walking by sgn
WalkCur(signal, prev_i, sgn) == prev_i + sgn * AsInt(check_edges(signal, prev_i + sgn))
\* the index of the i-th point checked ahead of cur_i
WalkAhead(signal, cur_i, sgn, i) == cur_i + i * sgn * AsInt(check_edges(signal, cur_i + i * sgn))
\* next_points: one of the points ahead fulfils the condition
NextPoints(c, prev_i, sgn) ==
    \E i \in 1..(c.look_ahead - 1) :
        check_condition(c.mode, c.signal[prev_i + 1],
                        c.signal[WalkAhead(c.signal, WalkCur(c.signal, prev_i, sgn), sgn, i) + 1])
\* the check without check_gaps
StepCheckOverGaps(check_cur_slope, check_gaps, check_cur_edges) ==
    check_cur_slope /\ check_cur_edges

\* check = check_cur_slope & check_gaps & check_cur_edges
StepCheck(check_cur_slope, check_gaps, check_cur_edges) ==
    check_cur_slope /\ check_gaps /\ check_cur_edges
\* the check of one walker at prev_i
WalkCheck(c, prev_i, sgn) ==
    StepCheck(check_condition(c.mode, c.signal[prev_i + 1], c.signal[WalkCur(c.signal, prev_i, sgn) + 1])
                  \/ NextPoints(c, prev_i, sgn),
              c.no_gaps[WalkCur(c.signal, prev_i, sgn) + 1],
              check_edges(c.signal, prev_i + sgn))
\* the indices read by one walker at prev_i, in signal and in no_gaps
WalkReads(c, prev_i, sgn) ==
    {prev_i, WalkCur(c.signal, prev_i, sgn)}
        \cup {WalkAhead(c.signal, WalkCur(c.signal, prev_i, sgn), sgn, i) : i \in 1..(c.look_ahead - 1)}
\* one step of all walkers from the indices prev_i
WalkStep(c, prev_i, iterations, reads) ==
    [check      |-> [k \in DOMAIN prev_i |->
                        WalkCheck(c, prev_i[k], WalkSign(c.mode, c.slope_sign[k]))],
     cur_i      |-> [k \in DOMAIN prev_i |->
                        prev_i[k] + WalkSign(c.mode, c.slope_sign[k])
                                      * AsInt(WalkCheck(c, prev_i[k], WalkSign(c.mode, c.slope_sign[k])))],
     iterations |-> iterations,
     reads      |-> reads \cup UNION {WalkReads(c, prev_i[k], WalkSign(c.mode, c.slope_sign[k])) : k \in DOMAIN prev_i}]

InitWalk ==
    /\ fn_pc = "call"
    /\ \E n \in 1..MaxWalk : \E signal \in [1..n -> {-1, 0, 1}] :
       \E gap \in BOOLEAN : \E mode \in WalkModes : \E look_ahead \in 1..MaxLook :
       \E peak \in 0..(n - 1) : \E sgn \in {-1, 0, 1} :
          fn_in = [function   |-> "curve_walker",
                   signal     |-> signal,
                   peaks      |-> <<peak, (n - 1) \div 2>>,
                   slope_sign |-> <<sgn, 1>>,
                   no_gaps    |-> [k \in 1..n |-> ~(gap /\ k = Max2(1, n - 1))],
                   mode       |-> mode,
                   look_ahead |-> look_ahead]
    /\ fn_out = NoRec
    /\ EpIdle /\ AsIdle /\ FeIdle

\* the first step, before the loop
WalkFirst ==
    /\ fn_pc = "call"
    /\ fn_in.function = "curve_walker"
    /\ fn_out' = WalkStep(fn_in, fn_in.peaks, 0, {})
    /\ fn_pc' = "loop"
    /\ UNCHANGED <<fn_in, ep_vars, as_vars, fe_vars>>

\* one iteration of the while loop (the count of iterations stops past the length of the curve)
WalkLoop ==
    /\ fn_pc = "loop"
    /\ fn_in.function = "curve_walker"
    /\ \E k \in DOMAIN fn_out.check : fn_out.check[k]
    /\ fn_out.iterations <= Len(fn_in.signal)
    /\ fn_out' = WalkStep(fn_in, fn_out.cur_i, fn_out.iterations + 1, fn_out.reads)
    /\ UNCHANGED <<fn_pc, fn_in, ep_vars, as_vars, fe_vars>>

WalkReturn ==
    /\ fn_pc = "loop"
    /\ fn_in.function = "curve_walker"
    /\ \A k \in DOMAIN fn_out.check : ~fn_out.check[k]
    /\ fn_pc' = "done"
    /\ UNCHANGED <<fn_in, fn_out, ep_vars, as_vars, fe_vars>>

NextWalk == WalkFirst \/ WalkLoop \/ WalkReturn

SpecWalk == InitWalk /\ [][NextWalk]_vars

\* the walk is a sequential loop: every step that can be taken is taken
SpecWalkFair == SpecWalk /\ WF_vars(NextWalk)

C24_Walking == fn_in.function = "curve_walker" /\ fn_pc \in {"loop", "done"}
C24_Sign(k) == IF fn_in.mode \in {"down", "down_to_zero"} THEN -fn_in.slope_sign[k] ELSE fn_in.slope_sign[k]
\* C24: every index of a walker is inside the curve and on the walking side
\* of its start, a walker that left its start is on no gap sample, and every
\* index read is inside the curve
C24_WalkerSafe ==
    C24_Walking =>
        /\ \A k \in DOMAIN fn_out.cur_i :
              /\ fn_out.cur_i[k] \in 0..(Len(fn_in.signal) - 1)
              /\ (fn_out.cur_i[k] - fn_in.peaks[k]) * C24_Sign(k) >= 0
              /\ C24_Sign(k) = 0 => fn_out.cur_i[k] = fn_in.peaks[k]
              /\ fn_out.cur_i[k] # fn_in.peaks[k] => fn_in.no_gaps[fn_out.cur_i[k] + 1]
        /\ fn_out.reads \subseteq 0..(Len(fn_in.signal) - 1)
\* a walker with points checked ahead stopped before a gap after it walked
C24_StoppedAtGap ==
    /\ fn_pc = "done" /\ fn_in.function = "curve_walker"
    /\ fn_in.look_ahead > 1
    /\ \E k \in DOMAIN fn_out.cur_i :
          /\ fn_out.cur_i[k] # fn_in.peaks[k]
          /\ ~fn_in.no_gaps[fn_out.cur_i[k] + C24_Sign(k) + 1]


C25_Loop == fn_in.function = "curve_walker" /\ fn_pc = "loop"
\* the indices before a step: the peaks before the first, cur_i afterwards
C25_Before == IF fn_pc = "call" THEN fn_in.peaks ELSE fn_out.cur_i
\* a step of the walkers: a walker whose check holds has moved by one sample
\* in its direction, and a walker whose check failed stays and fails again
C25_StepAdvances ==
    (fn_in.function = "curve_walker" /\ fn_pc \in {"call", "loop"} /\ fn_pc' = "loop") =>
        \A k \in DOMAIN fn_in.peaks :
            /\ fn_out'.check[k] =>
                  /\ C24_Sign(k) # 0
                  /\ fn_out'.cur_i[k] = C25_Before[k] + C24_Sign(k)
            /\ ~fn_out'.check[k] => fn_out'.cur_i[k] = C25_Before[k]
            /\ (fn_pc = "loop" /\ ~fn_out.check[k]) => ~fn_out'.check[k]
C25_NoDirection ==
    /\ fn_pc = "done" /\ fn_in.function = "curve_walker"
    /\ fn_in.slope_sign[1] = 0 /\ fn_in.look_ahead > 1

C26_Returned == fn_pc = "done" /\ fn_in.function = "curve_walker"
\* the value of the curve where walker k started and where it was returned
C26_StartValue(k) == fn_in.signal[fn_in.peaks[k] + 1]
C26_EndValue(k) == fn_in.signal[fn_out.cur_i[k] + 1]
C26_Improved(k) ==
    /\ fn_in.mode = "up" =>
          /\ C26_EndValue(k) >= C26_StartValue(k)
          /\ fn_out.cur_i[k] # fn_in.peaks[k] => C26_EndValue(k) > C26_StartValue(k)
    /\ fn_in.mode = "down" =>
          /\ C26_EndValue(k) <= C26_StartValue(k)
          /\ fn_out.cur_i[k] # fn_in.peaks[k] => C26_EndValue(k) < C26_StartValue(k)
\* C26: in mode 'up' the curve at the returned index is not below the curve
\* at the start and above it if the walker moved, in mode 'down' not above
\* and below it, for every look_ahead and every gap mask
C26_OnlyImproves ==
    C26_Returned => \A k \in DOMAIN fn_out.cur_i : C26_Improved(k)
\* the same without points checked ahead, and without gaps
C26_ImprovesStepwise ==
    (C26_Returned /\ fn_in.look_ahead = 1) => \A k \in DOMAIN fn_out.cur_i : C26_Improved(k)
C26_ImprovesWithoutGaps ==
    (C26_Returned /\ \A i \in DOMAIN fn_in.no_gaps : fn_in.no_gaps[i]) =>
        \A k \in DOMAIN fn_out.cur_i : C26_Improved(k)

---------------------------------------------------------------------------
(* match_in_egress on runs of ingresses and egresses *)

\* the largest number of features in a light curve whose candidates are paired
MaxPairSlots == 3

\* the call c with candidate z (from 1) neither an ingress nor an egress
Unflagged(c, z) ==
    [c EXCEPT !.neg_slope = [k \in DOMAIN c.neg_slope |-> c.neg_slope[k] /\ k # z],
              !.pos_slope = [k \in DOMAIN c.pos_slope |-> c.pos_slope[k] /\ k # z]]

InitPairs ==
    /\ fn_pc = "call"
    /\ \E k \in 0..MaxPairSlots : \E curve \in [1..k -> Shapes] : \E scale \in 1..2 :
       \E z \in 0..Len(CurveOf(curve).added_snr) :
          fn_in = [function |-> "match_in_egress", c |-> Unflagged(MatchCallOf(CurveOf(curve), scale), z)]
    /\ fn_out = NoRec
    /\ EpIdle /\ AsIdle /\ FeIdle

NextPairs == MatchCall

SpecPairs == InitPairs /\ [][NextPairs]_vars

C27_Returned == fn_pc = "done" /\ fn_in.function = "match_in_egress"
\* every candidate is an ingress or an egress
C27_AllFlagged ==
    \A k \in DOMAIN fn_in.c.added_snr : fn_in.c.pos_slope[k] # fn_in.c.neg_slope[k]
\* the first egress after candidate a: the boundary of the runs of a
C27_Boundary(a) ==
    SetMin({k \in (a + 1)..(Len(fn_in.c.added_snr) - 1) : fn_in.c.neg_slope[k + 1]})
\* the coverage of the samples and the difference in added_snr of the pair
C27_Covered(a, b) ==
    (fn_in.c.peaks_edge[b + 1] - fn_in.c.peaks_edge[a + 1]) * Median2(Diff(fn_in.c.times))
        > fn_in.c.times[fn_in.c.peaks_edge[b + 1] + 1] - fn_in.c.times[fn_in.c.peaks_edge[a + 1] + 1]
C27_AlikeSnr(a, b) ==
    10 * Max2(fn_in.c.added_snr[a + 1], fn_in.c.added_snr[b + 1])
        < 18 * Min2(fn_in.c.added_snr[a + 1], fn_in.c.added_snr[b + 1])
\* C27: every returned pair (a, b) is an ingress a before an egress b from
\* adjacent runs, no two pairs lie at the same boundary of runs, the pair
\* passes the check of the levels, of the coverage and of the added_snr, and
\* not_used holds exactly the candidates in no returned pair
C27_PairsSound ==
    (C27_Returned /\ C27_AllFlagged) =>
        /\ \A j \in DOMAIN fn_out.full_ecl :
              \E a \in {fn_out.full_ecl[j][1]} : \E b \in {fn_out.full_ecl[j][2]} :
                 /\ fn_in.c.pos_slope[a + 1] /\ fn_in.c.neg_slope[b + 1]
                 /\ a < b
                 /\ \A k, l \in a..b : (fn_in.c.neg_slope[k + 1] /\ fn_in.c.pos_slope[l + 1]) => l < k
                 /\ Passed(fn_in.c, <<a, b>>)
                 /\ C27_Covered(a, b)
                 /\ C27_AlikeSnr(a, b)
        /\ \A i, j \in DOMAIN fn_out.full_ecl :
              C27_Boundary(fn_out.full_ecl[i][1]) = C27_Boundary(fn_out.full_ecl[j][1]) => i = j
        /\ fn_out.not_used =
              (0..(Len(fn_in.c.added_snr) - 1))
                  \ UNION {{fn_out.full_ecl[j][1], fn_out.full_ecl[j][2]} : j \in DOMAIN fn_out.full_ecl}
\* a pair was returned from a run of several ingresses or egresses: it has a
\* candidate between its members, or its neighbour of the same run is not used
C27_ChosenFromRuns ==
    /\ C27_Returned /\ C27_AllFlagged
    /\ \E j \in DOMAIN fn_out.full_ecl :
          fn_out.full_ecl[j][2] - fn_out.full_ecl[j][1] > 1
          \/ \E k \in fn_out.not_used :
                k \in {fn_out.full_ecl[j][1] - 1, fn_out.full_ecl[j][2] + 1}
                /\ fn_in.c.pos_slope[k + 1] = (k < fn_out.full_ecl[j][1])
\* a returned pair begins with a candidate that is neither ingress nor egress
C27_UnflaggedPaired ==
    C27_Returned /\ \E j \in DOMAIN fn_out.full_ecl : ~fn_in.c.pos_slope[fn_out.full_ecl[j][1] + 1]

---------------------------------------------------------------------------
(* eliminate_same_peak: of the peaks on one peak of deriv_1s the highest in deriv_13s passes *)

\* the largest number of samples of the derivatives
MaxPeakLen == 4

\* same_pks[i] for the peaks i and i + 1 (from 0)
SamePeak(deriv_1s, peaks_13, i) ==
    \E pk1_h \in {deriv_1s[peaks_13[i + 1] + 1]} : \E pk2_h \in {deriv_1s[peaks_13[i + 2] + 1]} :
        IF pk1_h > 0 /\ pk2_h > 0
        THEN \A j \in peaks_13[i + 1]..peaks_13[i + 2] : 10 * deriv_1s[j + 1] > 9 * Min2(pk1_h, pk2_h)
        ELSE IF pk1_h < 0 /\ pk2_h < 0
        THEN \A j \in peaks_13[i + 1]..peaks_13[i + 2] : 10 * deriv_1s[j + 1] < 9 * Max2(pk1_h, pk2_h)
        ELSE FALSE
SamePks(deriv_1s, peaks_13) ==
    [k \in 1..(Len(peaks_13) - 1) |-> SamePeak(deriv_1s, peaks_13, k - 1)]

\* the group as the pair of i and the next peak
PeakPair(same_pks, i, n) == {i, i + 1}

\* group: i and every j > i with np.all(same_pks[i:j]), n the number of peaks
PeakGroup(same_pks, i, n) ==
    {i} \cup {j \in (i + 1)..(n - 1) : \A k \in i..(j - 1) : same_pks[k + 1]}
\* the first member of the group with the largest deriv_13s
HighestOf(deriv_13s, peaks_13, group) ==
    SetMin({j \in group : \A k \in group : deriv_13s[peaks_13[k + 1] + 1] <= deriv_13s[peaks_13[j + 1] + 1]})

\* the loop over same_pks from i on; passed is the set of the peaks that pass
RECURSIVE SamePeakLoop(_, _, _, _, _, _)
SamePeakLoop(deriv_13s, peaks_13, same_pks, i, last_i, passed) ==
    IF i > Len(same_pks) - 1 THEN passed
    ELSE IF i >= last_i /\ same_pks[i + 1]
    THEN SamePeakLoop(deriv_13s, peaks_13, same_pks, i + 1,
                      SetMax(PeakGroup(same_pks, i, Len(peaks_13))),
                      (passed \ PeakGroup(same_pks, i, Len(peaks_13)))
                          \cup {HighestOf(deriv_13s, peaks_13, PeakGroup(same_pks, i, Len(peaks_13)))})
    ELSE SamePeakLoop(deriv_13s, peaks_13, same_pks, i + 1, last_i, passed)

\* passed as a sequence of booleans
eliminate_same_peak(deriv_1s, deriv_13s, peaks_13) ==
    [k \in 1..Len(peaks_13) |->
        (k - 1) \in SamePeakLoop(deriv_13s, peaks_13, SamePks(deriv_1s, peaks_13), 0, -1,
                                 0..(Len(peaks_13) - 1))]

InitSamePeak ==
    /\ fn_pc = "call"
    /\ \E deriv_1s \in [1..MaxPeakLen -> {-10, -5, 5, 10}] :
       \E deriv_13s \in [1..MaxPeakLen -> {1, 2}] :
       \E S \in SUBSET (0..(MaxPeakLen - 1)) :
          fn_in = [function  |-> "eliminate_same_peak",
                   deriv_1s  |-> deriv_1s,
                   deriv_13s |-> deriv_13s,
                   peaks_13  |-> Ascending(S)]
    /\ fn_out = NoRec
    /\ EpIdle /\ AsIdle /\ FeIdle

SamePeakCall ==
    /\ fn_pc = "call"
    /\ fn_in.function = "eliminate_same_peak"
    /\ fn_in.peaks_13 # <<>>
    /\ fn_out' = [passed |-> eliminate_same_peak(fn_in.deriv_1s, fn_in.deriv_13s, fn_in.peaks_13)]
    /\ fn_pc' = "done"
    /\ UNCHANGED <<fn_in, ep_vars, as_vars, fe_vars>>

\* np.zeros(len(peaks_13) - 1) for no peaks
SamePeakNoPeaks ==
    /\ fn_pc = "call"
    /\ fn_in.function = "eliminate_same_peak"
    /\ fn_in.peaks_13 = <<>>
    /\ fn_out' = [error |-> "ValueError"]
    /\ fn_pc' = "raised"
    /\ UNCHANGED <<fn_in, ep_vars, as_vars, fe_vars>>

NextSamePeak == SamePeakCall \/ SamePeakNoPeaks

SpecSamePeak == InitSamePeak /\ [][NextSamePeak]_vars

C28_Returned == fn_pc = "done" /\ fn_in.function = "eliminate_same_peak"
\* deriv_1s and deriv_13s at peak k (from 1)
C28_D1(k) == fn_in.deriv_1s[fn_in.peaks_13[k] + 1]
C28_D13(k) == fn_in.deriv_13s[fn_in.peaks_13[k] + 1]
\* the peaks k and k + 1 lie on the same extremum of deriv_1s: both on one
\* side of zero and all of deriv_1s between them beyond 0.9 of the one
\* nearer to zero
C28_Same(k) ==
    \/ /\ C28_D1(k) > 0 /\ C28_D1(k + 1) > 0
       /\ \A j \in fn_in.peaks_13[k]..fn_in.peaks_13[k + 1] :
             10 * fn_in.deriv_1s[j + 1] > 9 * C28_D1(k) \/ 10 * fn_in.deriv_1s[j + 1] > 9 * C28_D1(k + 1)
    \/ /\ C28_D1(k) < 0 /\ C28_D1(k + 1) < 0
       /\ \A j \in fn_in.peaks_13[k]..fn_in.peaks_13[k + 1] :
             10 * fn_in.deriv_1s[j + 1] < 9 * C28_D1(k) \/ 10 * fn_in.deriv_1s[j + 1] < 9 * C28_D1(k + 1)
\* the maximal runs lo..hi of two or more consecutive peaks on the same extremum
C28_Runs ==
    {r \in (1..Len(fn_in.peaks_13)) \X (1..Len(fn_in.peaks_13)) :
        /\ r[1] < r[2]
        /\ \A k \in r[1]..(r[2] - 1) : C28_Same(k)
        /\ r[1] > 1 => ~C28_Same(r[1] - 1)
        /\ r[2] < Len(fn_in.peaks_13) => ~C28_Same(r[2])}
\* C28: of every maximal run of consecutive peaks on the same extremum of
\* deriv_1s exactly one peak passes and none of the run has a larger
\* deriv_13s, every peak in no run passes, and at least one peak passes
C28_OnePerRun ==
    C28_Returned =>
        /\ \A r \in C28_Runs :
              /\ Cardinality({k \in r[1]..r[2] : fn_out.passed[k]}) = 1
              /\ \A k, j \in r[1]..r[2] : fn_out.passed[k] => C28_D13(j) <= C28_D13(k)
        /\ \A k \in DOMAIN fn_in.peaks_13 :
              (\A r \in C28_Runs : k \notin r[1]..r[2]) => fn_out.passed[k]
        /\ \E k \in DOMAIN fn_in.peaks_13 : fn_out.passed[k]
\* a run of three peaks gave its last peak, next to a peak in no run
C28_RunOfThree ==
    /\ C28_Returned
    /\ \E r \in C28_Runs : r[2] - r[1] = 2 /\ fn_out.passed[r[2]]
    /\ Len(fn_in.peaks_13) = 4

---------------------------------------------------------------------------
(* estimate_period up to the refined period, for every period grid *)

\* a light curve with two eclipses a thousandth of a day apart
Family4 == [timestep |-> 20000, ecl |-> <<
    <<4300, 50000, 2, 10, 1>>, <<4400, 5000, 10, 50, 0>>, <<11700, 50000, 10, 50, 0>>,
    <<19000, 5000, 10, 52, 0>> >>]

\* the calls with three or more eclipses, whatever the periods of the refinement
RefineCalls ==
    {CallOf(fam, sel) : fam \in Families, sel \in {s \in SubLists(1, 7) : Len(s) > 2}}
        \cup {CallOf(Family4, sel) : sel \in {s \in SubLists(1, 4) : Len(s) > 2}}

\* the phase deviation for a period below zero: the phases of -x folded on -p
PhaseDevBelow(p, mids) == PhaseDev(-p, [i \in DOMAIN mids |-> 2 * mids[1] - mids[i]])
\* phase_dev over period_range, without the periods that are zero (their
\* phases are not numbers); larger than any deviation there
PhaseDevs(p_best, dp, mids) ==
    [i \in 1..RefineLen |->
        IF RangeAt(p_best, dp, i - 1) > 0 THEN PhaseDev(RangeAt(p_best, dp, i - 1), mids)
        ELSE IF RangeAt(p_best, dp, i - 1) < 0 THEN PhaseDevBelow(RangeAt(p_best, dp, i - 1), mids)
        ELSE Len(mids) * Len(mids) * PS]
\* the indices of period_range where the period is zero
ZeroPeriods(p_best, dp) == {i \in 0..(RefineLen - 1) : RangeAt(p_best, dp, i) = 0}

InitRefine ==
    /\ fn_pc = "call"
    /\ \E in \in RefineCalls : fn_in = [function |-> "estimate_period", in |-> in]
    /\ fn_out = NoRec
    /\ EpIdle /\ AsIdle /\ FeIdle

\* the sorting, the reference eclipse, the period grid and the best period
RefineSearch ==
    /\ fn_pc = "call"
    /\ fn_in.function = "estimate_period"
    /\ \E sorter \in {ArgSort(fn_in.in.ecl_mid)} :
       \E mid \in {Permute(fn_in.in.ecl_mid, sorter)} :
       \E wid \in {Permute(fn_in.in.widths, sorter)} :
       \E dep \in {Permute(fn_in.in.depths, sorter)} :
       \E snr \in {Permute(fn_in.in.added_snr, sorter)} :
       \E ecl_0 \in {RefEclipse(snr, Permute([i \in DOMAIN fn_in.in.flags_lrf |-> fn_in.in.flags_lrf[i] = 0],
                                             sorter))} :
       \E p_max \in {SearchPMax(mid, snr)} :
       \E pad \in {(5 * (mid[Len(mid)] - mid[1])) \div (100 * Len(mid))} :
       \E domain \in {<<mid[1] - pad, mid[Len(mid)] + pad>>} :
          IF ecl_0 = -1
          THEN fn_pc' = "raised" /\ fn_out' = [error |-> "IndexError"]
          ELSE IF ~(p_max > TU \div 1000)
          THEN fn_pc' = "done" /\ fn_out' = [period |-> Sentinel]
          ELSE \E grid \in {PeriodGrid(mid, HalfWidths(wid), ecl_0, p_max, fn_in.in.timestep)} :
               IF grid[3] < 2
               THEN fn_pc' = "raised" /\ fn_out' = [error |-> "ValueError"]
               ELSE \E gof \in {pattern_test(mid, dep, SetMin(Range(dep)), HalfWidths(wid),
                                             domain, ecl_0, p_max, fn_in.in.timestep)} :
                    \E p_best \in {GridAt(grid, ArgMax(gof))} :
                    \E incl \in {extract_pattern(mid, wid, snr, mid[ecl_0 + 1], p_best, domain)} :
                       /\ fn_pc' = "refine"
                       /\ fn_out' = [p_best |-> p_best, dp |-> 3 * grid[2], mids |-> Pick(mid, incl)]
    /\ UNCHANGED <<fn_in, ep_vars, as_vars, fe_vars>>

\* period = period_range[np.argmin(phase_dev)]; where a period of the range is
\* zero its deviation is not a number, and np.argmin gives the first of these
\* or passes them over
RefineArgMin ==
    /\ fn_pc = "refine"
    /\ fn_in.function = "estimate_period"
    /\ \E best \in {ArgMin(PhaseDevs(fn_out.p_best, fn_out.dp, fn_out.mids))}
                      \cup (IF ZeroPeriods(fn_out.p_best, fn_out.dp) = {} THEN {}
                            ELSE {SetMin(ZeroPeriods(fn_out.p_best, fn_out.dp))}) :
          fn_out' = [p_best |-> fn_out.p_best, dp |-> fn_out.dp, mids |-> fn_out.mids,
                     period |-> RangeAt(fn_out.p_best, fn_out.dp, best)]
    /\ fn_pc' = "done"
    /\ UNCHANGED <<fn_in, ep_vars, as_vars, fe_vars>>

NextRefine == RefineSearch \/ RefineArgMin

SpecRefine == InitRefine /\ [][NextRefine]_vars

C29_Refined == fn_pc = "done" /\ fn_in.function = "estimate_period"
\* C29: the period after the refinement is the sentinel -1 or above zero
C29_PeriodPositive ==
    C29_Refined => (fn_out.period = Sentinel \/ fn_out.period > 0)
\* the refined period lies in the range around the best period of the grid,
\* and is above zero where the best period is more than three steps of the grid
C29_WithinRange ==
    (C29_Refined /\ fn_out.period # Sentinel) =>
        /\ fn_out.period >= fn_out.p_best - fn_out.dp
        /\ fn_out.period < fn_out.p_best + fn_out.dp
        /\ fn_out.p_best > 0
        /\ fn_out.p_best > fn_out.dp => fn_out.period > 0
\* a best period of more than three steps of the grid was refined
C29_RefinedFar ==
    C29_Refined /\ fn_out.period # Sentinel /\ fn_out.p_best > fn_out.dp /\ fn_out.period # fn_out.p_best

---------------------------------------------------------------------------
(* estimate_period on the same eclipses in another order *)

\* the largest number of eclipses of a call that is repeated in another order
MaxReorder == 3

\* the orders of n eclipses: new position i takes the eclipse of position perm[i]
Orders(n) == {perm \in [1..n -> 1..n] : \A i, j \in 1..n : perm[i] = perm[j] => i = j}
ReorderCall(in, perm) ==
    [ecl_mid   |-> [i \in DOMAIN perm |-> in.ecl_mid[perm[i]]],
     widths    |-> [i \in DOMAIN perm |-> in.widths[perm[i]]],
     depths    |-> [i \in DOMAIN perm |-> in.depths[perm[i]]],
     added_snr |-> [i \in DOMAIN perm |-> in.added_snr[perm[i]]],
     flags_lrf |-> [i \in DOMAIN perm |-> in.flags_lrf[perm[i]]],
     timestep  |-> in.timestep]

InitReorder ==
    /\ ep_pc = "start"
    /\ \E in \in {c \in EstimateCalls : Len(c.ecl_mid) <= MaxReorder} :
       \E perm \in Orders(Len(in.ecl_mid)) :
          /\ ep_in = in
          /\ fn_in = [function |-> "estimate_period twice", perm |-> perm]
    /\ ep_w = NoRec
    /\ ep_period = 0
    /\ ep_incl = {}
    /\ ep_grp = NoRec
    /\ ep_out = NoRec
    /\ ep_err = "none"
    /\ AsIdle /\ FeIdle
    /\ fn_pc = "first"
    /\ fn_out = NoRec

\* the first call has ended: its result is kept and the call is made again
\* with the eclipses in the other order
ReorderAgain ==
    /\ fn_pc = "first"
    /\ ep_pc \in {"done", "raised"}
    /\ fn_out' = [pc |-> ep_pc, first |-> ep_out]
    /\ fn_pc' = "second"
    /\ ep_in' = ReorderCall(ep_in, fn_in.perm)
    /\ ep_pc' = "start"
    /\ ep_w' = NoRec
    /\ ep_period' = 0
    /\ ep_incl' = {}
    /\ ep_grp' = NoRec
    /\ ep_out' = NoRec
    /\ ep_err' = "none"
    /\ UNCHANGED <<fn_in, as_vars, fe_vars>>

NextReorder == NextPeriod \/ ReorderAgain

SpecReorder == InitReorder /\ [][NextReorder]_vars

\* both calls have returned
C30_BothReturned == fn_pc = "second" /\ fn_out.pc = "done" /\ ep_pc = "done"
\* the earliest midpoint of the full primaries, else of the primaries, of the second call
C30_Primaries == {i \in DOMAIN ep_out.flags_pst : ep_out.flags_pst[i] = 1}
C30_FullPrimaries == {i \in C30_Primaries : ep_in.flags_lrf[i] = 0}
C30_Earliest ==
    IF C30_FullPrimaries # {} THEN SetMin({ep_in.ecl_mid[i] : i \in C30_FullPrimaries})
    ELSE IF C30_Primaries # {} THEN SetMin({ep_in.ecl_mid[i] : i \in C30_Primaries})
    ELSE Sentinel
C30_Equivariant ==
    /\ Len(ep_out.flags_pst) = Len(ep_in.ecl_mid)
    /\ \A i \in DOMAIN ep_out.flags_pst :
          /\ ep_out.flags_pst[i] \in {1, 2, 3}
          /\ ep_out.flags_pst[i] = fn_out.first.flags_pst[fn_in.perm[i]]
    /\ ep_out.period = fn_out.first.period
    /\ ep_out.t_zero = fn_out.first.t_zero
    /\ C30_FullPrimaries # {} => ep_out.t_zero = C30_Earliest
\* C30: the call on the eclipses in another order returns the flags in that
\* order, each 1, 2 or 3, and the same period and t_zero, the earliest
\* midpoint of the full primaries, for any number of eclipses
C30_OrderFree == C30_BothReturned => C30_Equivariant
\* the same for calls of other than two eclipses
C30_OrderFreeSorted ==
    (C30_BothReturned /\ Len(ep_in.ecl_mid) # 2) => C30_Equivariant
\* three eclipses in another order gave a period and primaries
C30_ThreeReordered ==
    /\ C30_BothReturned
    /\ Len(ep_in.ecl_mid) = 3
    /\ \E i \in 1..3 : fn_in.perm[i] # i
    /\ ep_out.period # Sentinel

============================================================================
